---- MODULE Spec2Model ----
(***************************************************************************)
(* The OAuth proxy of the MCP gateway (src/auth/oauth-proxy.ts): Dynamic   *)
(* Client Registration, /authorize, /auth/callback, /token, /revoke and    *)
(* the periodic sweeper, as a state machine over the three in-memory maps; *)
(* and its resource server: the Bearer token middleware                    *)
(* (src/auth/validate-jwt.ts) in front of /mcp (src/index.ts), the todo    *)
(* store (src/store/cosmos-store.ts) and the get_user_info tool with its   *)
(* On-Behalf-Of helper (src/tools.ts, src/auth/obo-helper.ts).             *)
(* Node runs every handler on one thread: a handler is atomic up to its    *)
(* next `await`, so each action below is one such uninterrupted stretch.   *)
(***************************************************************************)
EXTENDS Integers, FiniteSets, Sequences, TLC

(* ---------------------------------------------------------------------- *)
(* Bounds of the model                                                     *)
(* ---------------------------------------------------------------------- *)
\* client registrations
MaxClients == 1
\* authorizations started in Spec and SpecClock
MaxAuth == 1
\* authorizations started in SpecAttempts
MaxAttempts == 2
\* clock steps of SpecClock
MaxTicks == 6
\* token validations suspended at the same time
MaxPending == 1
\* transports created by POST /mcp
MaxSessions == 1
\* refresh grants suspended at the same time
MaxRefresh == 1
\* todos created in a run
MaxTodos == 2
\* updateTodo / toggleTodo calls suspended between read and replace at the
\* same time
MaxStoreOps == 1
\* get_user_info calls suspended at the same time
MaxToolCalls == 1
\* transports created in SpecSessions
MaxTransports == 2
\* POST /mcp handlers, and DELETE /mcp handlers, suspended at the same time
MaxHandlers == 1

(* ---------------------------------------------------------------------- *)
(* Program constants (milliseconds)                                        *)
(* ---------------------------------------------------------------------- *)
TRANSACTION_TTL == 10 * 60 * 1000
CODE_TTL == 5 * 60 * 1000
SWEEP_INTERVAL == 5 * 60 * 1000

\* The clock of the model advances in steps of half a sweep interval.
Tick == SWEEP_INTERVAL \div 2

(* ---------------------------------------------------------------------- *)
(* JavaScript values                                                       *)
(* ---------------------------------------------------------------------- *)
\* A query or body parameter that the request does not carry.
Undefined == "<undefined>"

\* JavaScript truthiness of a string-valued parameter.
Truthy(x) == x \notin {Undefined, ""}

\* `x || d`
OrElse(x, d) == IF Truthy(x) THEN x ELSE d

\* JSON values a field meant to hold an array can hold: an array, a string,
\* or nothing (the field is missing).
Arr(items) == [type |-> "array", items |-> items]
Str(text) == [type |-> "string", text |-> text]
Absent == [type |-> "undefined"]

\* `v || d` for such a value: every array is truthy, the empty one too.
ValueOrElse(v, d) ==
  IF v.type = "array" \/ (v.type = "string" /\ v.text # "") THEN v ELSE d

\* crypto.createHash("sha256").update(v).digest("base64url"): an injective
\* function whose value is never its own argument.
Sha256Base64Url(v) == "S256(" \o v \o ")"

(* ---------------------------------------------------------------------- *)
(* Inputs                                                                  *)
(* ---------------------------------------------------------------------- *)
AppUri == "https://app/cb"
EvilUri == "https://evil/cb"
Verifiers == {"v1", "v2"}

\* new URL(s) returns for these strings and throws for every other one.
ValidUrl(s) == s \in {AppUri, EvilUri}

\* The body of POST /register of the README: redirect_uris alone.
ReadmeRegisterBody ==
  [client_name |-> Undefined, redirect_uris |-> Arr(<<AppUri>>),
   grant_types |-> Absent, response_types |-> Absent,
   token_endpoint_auth_method |-> Undefined]

\* The body {} of POST /register: every field missing.
EmptyRegisterBody ==
  [client_name |-> Undefined, redirect_uris |-> Absent,
   grant_types |-> Absent, response_types |-> Absent,
   token_endpoint_auth_method |-> Undefined]

\* Bodies of POST /register: redirect_uris may be missing from the body.
RegisterBodies == {ReadmeRegisterBody, EmptyRegisterBody}

\* Bodies of POST /register as JSON allows them: nothing checks that
\* redirect_uris is an array.
DcrBodies ==
  RegisterBodies \cup
  { [client_name |-> "app", redirect_uris |-> Arr(<<AppUri, EvilUri>>),
     grant_types |-> Arr(<<"authorization_code">>),
     response_types |-> Arr(<<"code">>),
     token_endpoint_auth_method |-> "client_secret_post"],
    [EmptyRegisterBody EXCEPT !.client_name = "", !.redirect_uris = Arr(<< >>)],
    [EmptyRegisterBody EXCEPT !.redirect_uris = Str(AppUri)] }

\* client_id values a request can carry: one the registry has not issued yet
\* is an unknown client.
ClientIds == 1 .. MaxClients
\* state values a callback can carry: 0 is a state /authorize never issued.
States == 0 .. MaxAttempts
\* code values a token request can carry: 0 is a code never issued.
Codes == 0 .. MaxAttempts

\* The query of the S256 flow of the README.
S256Query(c) ==
  [client_id |-> c, response_type |-> "code", redirect_uri |-> AppUri,
   state |-> "cs1", code_challenge |-> Sha256Base64Url("v1"),
   code_challenge_method |-> "S256", scope |-> "api://gw/mcp-access"]

\* Queries of GET /authorize.
AuthorizeQueries ==
  { S256Query(c) : c \in ClientIds } \cup
  UNION { { [client_id |-> c, response_type |-> "code", redirect_uri |-> AppUri,
             state |-> Undefined, code_challenge |-> "v1",
             code_challenge_method |-> "plain", scope |-> Undefined],
            [client_id |-> c, response_type |-> "code", redirect_uri |-> EvilUri,
             state |-> "cs1", code_challenge |-> Undefined,
             code_challenge_method |-> Undefined, scope |-> Undefined],
            [client_id |-> c, response_type |-> "code", redirect_uri |-> Undefined,
             state |-> Undefined, code_challenge |-> "v1",
             code_challenge_method |-> "other", scope |-> Undefined],
            [client_id |-> c, response_type |-> "token", redirect_uri |-> AppUri,
             state |-> "cs1", code_challenge |-> "v1",
             code_challenge_method |-> "plain", scope |-> Undefined],
            [client_id |-> c, response_type |-> Undefined, redirect_uri |-> AppUri,
             state |-> "cs1", code_challenge |-> Sha256Base64Url("v1"),
             code_challenge_method |-> "S256", scope |-> Undefined] }
          : c \in ClientIds }

\* Queries of GET /auth/callback.
CallbackQueries ==
  [state : States, code : {"idpCode"}, error : {Undefined, "access_denied"}]

\* Bodies of POST /token with grant_type=authorization_code.
TokenBodies ==
  [grant_type : {"authorization_code"}, code : Codes,
   code_verifier : Verifiers \cup {Undefined, ""}]

\* Bodies the IdP token endpoint answers with.
IdpErrorPayload == [error |-> "invalid_grant", error_description |-> "AADSTS70008"]
IdpSuccessPayloads ==
  { [error |-> Undefined, access_token |-> "JWT1", refresh_token |-> "R1",
     expires_in |-> 3600, scope |-> "api://gw/mcp-access"],
    [error |-> Undefined, access_token |-> "JWT2", refresh_token |-> Undefined,
     expires_in |-> 600, scope |-> "api://gw/mcp-access openid"] }
IdpPayloads == IdpSuccessPayloads \cup {IdpErrorPayload}

VARIABLES
  clientRegistrations,  \* Map client_id -> ClientRegistration
  authTransactions,     \* Map proxy_state -> AuthTransaction
  authCodes,            \* Map proxy_code -> StoredTokens
  now,                  \* Date.now()
  nextSweep,            \* time at which the setInterval timer is next due
  nextClient,           \* crypto.randomUUID(): next fresh client_id
  nextState,            \* crypto.randomUUID(): next fresh proxy_state
  nextCode,             \* crypto.randomUUID(): next fresh proxy_code
  pendingCallbacks,     \* /auth/callback handlers suspended at the IdP exchange
  lastResponse,         \* the HTTP response sent last
  exchanges,            \* history: proxy_state -> IdP exchanges started for it
  codeReads,            \* history: proxy_code -> /token lookups that found it
  codeOrigin,           \* history: proxy_code -> the state and IdP answer it came from
  issued,               \* history: proxy_state -> what its /authorize received and sent
  pendingRefreshes,     \* /token refresh grants suspended at the IdP call
  pendingValidations,   \* validateJwt / validateJwtOptional runs suspended at getSigningKey
  sessions,             \* Map mcp-session-id -> Session
  nextTransport,        \* transports created so far, plus one
  transports,           \* the transports created: sessionId and whether closed
  pendingPosts,         \* POST /mcp handlers of a new session at one of their awaits
  pendingDeletes,       \* DELETE /mcp handlers suspended at transport.close()
  closedSessions,       \* history: session ids a DELETE /mcp found and has answered
  initialized,          \* TodoStore.initialized
  container,            \* TodoStore.container: the Cosmos container, if any
  inMemoryStore,        \* TodoStore.inMemoryStore: Map user id -> TodoItem[]
  cosmosItems,          \* the documents of the Cosmos container, by partition key
  nextTodo,             \* crypto.randomUUID(): next fresh todo id
  pendingStoreOps,      \* updateTodo / toggleTodo between their read and their replace
  storeResult,          \* what the TodoStore method called last returned
  ccaInstance,          \* obo-helper ccaInstance: 0 is null
  ccaCreated,           \* history: ConfidentialClientApplication objects constructed
  pendingUserInfo,      \* get_user_info handlers suspended at the OBO or Graph call
  toolResult            \* how the get_user_info handler called last ended

vars == << clientRegistrations, authTransactions, authCodes, now, nextSweep,
           nextClient, nextState, nextCode, pendingCallbacks, lastResponse,
           exchanges, codeReads, codeOrigin, issued, pendingRefreshes,
           pendingValidations, sessions, nextTransport, transports,
           pendingPosts, pendingDeletes, closedSessions, initialized, container,
           inMemoryStore, cosmosItems, nextTodo, pendingStoreOps, storeResult,
           ccaInstance, ccaCreated, pendingUserInfo, toolResult >>

stores == << clientRegistrations, authTransactions, authCodes >>
clock == << now, nextSweep >>
fresh == << nextClient, nextState, nextCode >>
history == << exchanges, codeReads, codeOrigin, issued >>
\* the state of the resource server (src/index.ts, src/auth/validate-jwt.ts)
live == << transports, pendingPosts, pendingDeletes, closedSessions >>
mcp == << pendingValidations, sessions, nextTransport, live >>
\* the state of the todo store (src/store/cosmos-store.ts)
todo == << initialized, container, inMemoryStore, cosmosItems, nextTodo,
           pendingStoreOps, storeResult >>
\* the state of the get_user_info tool (src/tools.ts, src/auth/obo-helper.ts)
obo == << ccaInstance, ccaCreated, pendingUserInfo, toolResult >>
\* the state of the OAuth proxy, the answer left out
proxy == << stores, clock, fresh, pendingCallbacks, pendingRefreshes, history >>

\* Map.delete(key)
MapDelete(m, k) == [x \in DOMAIN m \ {k} |-> m[x]]
\* Map.set(key, value)
MapSet(m, k, v) == [x \in DOMAIN m \cup {k} |-> IF x = k THEN v ELSE m[x]]
\* Map.get(key) returns a value (and not undefined)
MapHas(m, k) == k \in DOMAIN m
\* history counters
Count(h, k) == IF k \in DOMAIN h THEN h[k] ELSE 0
Bump(h, k) == MapSet(h, k, Count(h, k) + 1)

NoResponse == [ep |-> "none", status |-> 0]

Init ==
  /\ clientRegistrations = << >>
  /\ authTransactions = << >>
  /\ authCodes = << >>
  /\ now = 0
  /\ nextSweep = SWEEP_INTERVAL
  /\ nextClient = 1
  /\ nextState = 1
  /\ nextCode = 1
  /\ pendingCallbacks = {}
  /\ lastResponse = NoResponse
  /\ exchanges = << >>
  /\ codeReads = << >>
  /\ codeOrigin = << >>
  /\ issued = << >>
  /\ pendingRefreshes = {}
  /\ pendingValidations = {}
  /\ sessions = << >>
  /\ nextTransport = 1
  /\ transports = << >>
  /\ pendingPosts = {}
  /\ pendingDeletes = {}
  /\ closedSessions = {}
  /\ initialized = FALSE
  /\ container = Undefined
  /\ inMemoryStore = << >>
  /\ cosmosItems = << >>
  /\ nextTodo = 1
  /\ pendingStoreOps = {}
  /\ storeResult = [op |-> "none", outcome |-> "none"]
  /\ ccaInstance = 0
  /\ ccaCreated = 0
  /\ pendingUserInfo = {}
  /\ toolResult = [kind |-> "none"]

(* ---------------------------------------------------------------------- *)
(* POST /register                                                          *)
(* ---------------------------------------------------------------------- *)
\* The ClientRegistration stored for a body (created_at is never read and is
\* left out).
Registration(clientId, body) ==
  [client_id |-> clientId,
   client_name |-> OrElse(body.client_name, "MCP Client"),
   redirect_uris |-> ValueOrElse(body.redirect_uris, Arr(<< >>)),
   grant_types |->
     ValueOrElse(body.grant_types, Arr(<<"authorization_code", "refresh_token">>)),
   response_types |-> ValueOrElse(body.response_types, Arr(<<"code">>)),
   token_endpoint_auth_method |-> OrElse(body.token_endpoint_auth_method, "none")]

\* What the handler does after clientRegistrations.set: the log line calls
\* registration.redirect_uris.join(", "), which only an array has, so for any
\* other value it throws and Express answers 500; otherwise 201 with the
\* registration.
RegisterResponse(registration) ==
  IF registration.redirect_uris.type # "array"
  THEN [ep |-> "register", status |-> 500, error |-> "TypeError"]
  ELSE [ep |-> "register", status |-> 201, error |-> Undefined,
        client_id |-> registration.client_id,
        client_name |-> registration.client_name,
        redirect_uris |-> registration.redirect_uris,
        grant_types |-> registration.grant_types,
        response_types |-> registration.response_types,
        token_endpoint_auth_method |-> registration.token_endpoint_auth_method]

Register(body) ==
  /\ nextClient <= MaxClients
  /\ LET registration == Registration(nextClient, body) IN
       /\ clientRegistrations' = MapSet(clientRegistrations, nextClient, registration)
       /\ lastResponse' = RegisterResponse(registration)
  /\ nextClient' = nextClient + 1
  /\ UNCHANGED << authTransactions, authCodes, clock, nextState, nextCode,
                  pendingCallbacks, history, pendingRefreshes, mcp, todo, obo >>

(* ---------------------------------------------------------------------- *)
(* GET /authorize                                                          *)
(* ---------------------------------------------------------------------- *)
\* crypto.randomBytes(32).toString("base64url") of the n-th authorization.
ProxyCodeVerifier(n) == "pv" \o ToString(n)

\* The AuthTransaction built from the query.
Transaction(q, proxyCodeVerifier, t) ==
  [clientId |-> q.client_id,
   clientRedirectUri |-> q.redirect_uri,
   clientState |-> q.state,
   clientCodeChallenge |-> OrElse(q.code_challenge, ""),
   clientCodeChallengeMethod |-> OrElse(q.code_challenge_method, "S256"),
   proxyCodeVerifier |-> proxyCodeVerifier,
   requestedScope |-> OrElse(q.scope, ""),
   createdAt |-> t]

\* The verifier itself sent as a plain challenge.
EntraAuthUrl_Plain(proxyState, proxyCodeChallenge) ==
  [client_id |-> "ENTRA_CLIENT_ID",
   response_type |-> "code",
   redirect_uri |-> "BASE/auth/callback",
   scope |-> "api://ENTRA_CLIENT_ID/mcp-access openid profile email offline_access",
   state |-> proxyState,
   code_challenge |-> proxyCodeChallenge,
   code_challenge_method |-> "plain"]

\* The Entra authorize URL the user agent is sent to.
EntraAuthUrl(proxyState, proxyCodeChallenge) ==
  [client_id |-> "ENTRA_CLIENT_ID",
   response_type |-> "code",
   redirect_uri |-> "BASE/auth/callback",
   scope |-> "api://ENTRA_CLIENT_ID/mcp-access openid profile email offline_access",
   state |-> proxyState,
   code_challenge |-> proxyCodeChallenge,
   code_challenge_method |-> "S256"]

AuthorizeResponse(q, proxyState) ==
  IF q.response_type # "code"
  THEN [ep |-> "authorize", status |-> 400, error |-> "unsupported_response_type"]
  ELSE [ep |-> "authorize", status |-> 302,
        location |-> EntraAuthUrl(proxyState,
                                  Sha256Base64Url(ProxyCodeVerifier(proxyState)))]

\* The transaction stored and the redirect sent whatever response_type is.
Authorize_StoreAlways(q, limit) ==
  /\ lastResponse' =
       [ep |-> "authorize", status |-> 302,
        location |-> EntraAuthUrl(nextState,
                                  Sha256Base64Url(ProxyCodeVerifier(nextState)))]
  /\ nextState <= limit
  /\ authTransactions' =
       MapSet(authTransactions, nextState,
              Transaction(q, ProxyCodeVerifier(nextState), now))
  /\ nextState' = nextState + 1
  /\ issued' =
       MapSet(issued, nextState,
              [code_challenge |-> q.code_challenge,
               code_challenge_method |-> q.code_challenge_method,
               idpChallenge |-> lastResponse'.location.code_challenge,
               idpMethod |-> lastResponse'.location.code_challenge_method])
  /\ UNCHANGED << clientRegistrations, authCodes, clock, nextClient, nextCode,
                  pendingCallbacks, exchanges, codeReads, codeOrigin,
                  pendingRefreshes, mcp, todo, obo >>

\* limit bounds the authorizations of a run.
Authorize(q, limit) ==
  /\ lastResponse' = AuthorizeResponse(q, nextState)
  /\ IF q.response_type # "code"
     THEN UNCHANGED << authTransactions, nextState, issued >>
     ELSE /\ nextState <= limit
          /\ authTransactions' =
               MapSet(authTransactions, nextState,
                      Transaction(q, ProxyCodeVerifier(nextState), now))
          /\ nextState' = nextState + 1
          /\ issued' =
               MapSet(issued, nextState,
                      [code_challenge |-> q.code_challenge,
                       code_challenge_method |-> q.code_challenge_method,
                       idpChallenge |-> lastResponse'.location.code_challenge,
                       idpMethod |-> lastResponse'.location.code_challenge_method])
  /\ UNCHANGED << clientRegistrations, authCodes, clock, nextClient, nextCode,
                  pendingCallbacks, exchanges, codeReads, codeOrigin,
                  pendingRefreshes, mcp, todo, obo >>

(* ---------------------------------------------------------------------- *)
(* GET /auth/callback                                                      *)
(* ---------------------------------------------------------------------- *)
\* The answers sent before the handler suspends; "suspended" when it goes on
\* to the IdP exchange. req is the state the request carried.
CallbackBeginResponse(q) ==
  IF Truthy(q.error)
  THEN [ep |-> "callback", status |-> 400, error |-> q.error, req |-> q.state]
  ELSE IF ~MapHas(authTransactions, q.state)
  THEN [ep |-> "callback", status |-> 400, error |-> "invalid_state",
        req |-> q.state]
  ELSE [ep |-> "callback", status |-> 0, error |-> "suspended", req |-> q.state]

\* The delete left out (or put off until after the await).
ConsumeTransaction_Keep(transactions, state) == transactions

\* authTransactions.delete(state)
ConsumeTransaction(transactions, state) == MapDelete(transactions, state)

\* The client's challenge sent in the place of the proxy verifier.
ExchangeRequest_Client(r) ==
  [client_id |-> "ENTRA_CLIENT_ID", client_secret |-> "ENTRA_CLIENT_SECRET",
   code |-> r.code, redirect_uri |-> "BASE/auth/callback",
   grant_type |-> "authorization_code",
   code_verifier |-> r.transaction.clientCodeChallenge]

\* The request body sent to the Entra token endpoint.
ExchangeRequest(r) ==
  [client_id |-> "ENTRA_CLIENT_ID", client_secret |-> "ENTRA_CLIENT_SECRET",
   code |-> r.code, redirect_uri |-> "BASE/auth/callback",
   grant_type |-> "authorization_code",
   code_verifier |-> r.transaction.proxyCodeVerifier]

\* The handler up to its first await: the lookup and the delete run with no
\* await between them; the exchange request is sent and the handler suspends.
CallbackBegin(q) ==
  LET response == CallbackBeginResponse(q) IN
  IF response.status # 0
  THEN /\ lastResponse' = response
       /\ UNCHANGED << stores, clock, fresh, pendingCallbacks, history,
                       pendingRefreshes, mcp, todo, obo >>
  ELSE /\ authTransactions' = ConsumeTransaction(authTransactions, q.state)
       /\ LET r == [state |-> q.state, code |-> q.code,
                    transaction |-> authTransactions[q.state]]
          IN pendingCallbacks' = pendingCallbacks \cup
               { [state |-> r.state, code |-> r.code,
                  transaction |-> r.transaction, sent |-> ExchangeRequest(r)] }
       /\ exchanges' = Bump(exchanges, q.state)
       /\ UNCHANGED << clientRegistrations, authCodes, clock, fresh,
                       lastResponse, codeReads, codeOrigin, issued,
                       pendingRefreshes, mcp, todo, obo >>

\* The answer of the catch block.
CallbackCatchResponse(r) ==
  [ep |-> "callback", status |-> 500, error |-> "server_error", req |-> r.state]

\* `await fetch(...)` or `await tokenResponse.json()` rejects.
CallbackThrows(r) ==
  /\ r \in pendingCallbacks
  /\ pendingCallbacks' = pendingCallbacks \ {r}
  /\ lastResponse' = CallbackCatchResponse(r)
  /\ UNCHANGED << stores, clock, fresh, history, pendingRefreshes, mcp, todo, obo >>

\* The StoredTokens record.
StoredTokens(tokenData, transaction, t) ==
  [accessToken |-> tokenData.access_token,
   refreshToken |-> tokenData.refresh_token,
   expiresIn |-> tokenData.expires_in,
   scope |-> tokenData.scope,
   clientCodeChallenge |-> transaction.clientCodeChallenge,
   clientCodeChallengeMethod |-> transaction.clientCodeChallengeMethod,
   createdAt |-> t]

\* new URL(clientRedirectUri) with searchParams.set("code", proxyCode) and, for
\* a truthy client state, searchParams.set("state", clientState).
ClientRedirect(transaction, proxyCode) ==
  [base |-> transaction.clientRedirectUri,
   code |-> proxyCode,
   state |-> IF Truthy(transaction.clientState)
             THEN transaction.clientState ELSE Undefined]

\* The answer once the IdP has answered with tokenData.
CallbackResponse(r, tokenData, proxyCode) ==
  IF Truthy(tokenData.error)
  THEN [ep |-> "callback", status |-> 400, error |-> tokenData.error,
        body |-> tokenData, req |-> r.state]
  ELSE IF ValidUrl(r.transaction.clientRedirectUri)
  THEN [ep |-> "callback", status |-> 302, error |-> Undefined,
        location |-> ClientRedirect(r.transaction, proxyCode), req |-> r.state]
  ELSE CallbackCatchResponse(r)

\* The two awaits resolve: the handler reads and writes nothing between them,
\* so they are one step.
CallbackResumes(r, tokenData) ==
  /\ r \in pendingCallbacks
  /\ pendingCallbacks' = pendingCallbacks \ {r}
  /\ lastResponse' = CallbackResponse(r, tokenData, nextCode)
  /\ IF Truthy(tokenData.error)
     THEN UNCHANGED << authCodes, nextCode, codeOrigin >>
     ELSE /\ authCodes' = MapSet(authCodes, nextCode,
                                 StoredTokens(tokenData, r.transaction, now))
          /\ nextCode' = nextCode + 1
          /\ codeOrigin' = MapSet(codeOrigin, nextCode,
                                  [state |-> r.state, tokenData |-> tokenData])
  /\ UNCHANGED << clientRegistrations, authTransactions, clock, nextClient,
                  nextState, exchanges, codeReads, issued, pendingRefreshes, mcp, todo, obo >>

(* ---------------------------------------------------------------------- *)
(* POST /token, authorization_code grant                                   *)
(* ---------------------------------------------------------------------- *)
\* The two branches of the method test exchanged.
PkcePasses_Swapped(stored, code_verifier) ==
  IF Truthy(stored.clientCodeChallenge) /\ Truthy(code_verifier)
  THEN LET expectedChallenge ==
             IF stored.clientCodeChallengeMethod = "S256"
             THEN code_verifier
             ELSE Sha256Base64Url(code_verifier)
       IN expectedChallenge = stored.clientCodeChallenge
  ELSE TRUE

\* TRUE when the PKCE check lets the request through.
PkcePasses(stored, code_verifier) ==
  IF Truthy(stored.clientCodeChallenge) /\ Truthy(code_verifier)
  THEN LET expectedChallenge ==
             IF stored.clientCodeChallengeMethod = "S256"
             THEN Sha256Base64Url(code_verifier)
             ELSE code_verifier
       IN expectedChallenge = stored.clientCodeChallenge
  ELSE TRUE

\* The refresh token sent in the place of the access token.
TokenResponseBody_Swapped(stored) ==
  [access_token |-> stored.refreshToken,
   token_type |-> "Bearer",
   expires_in |-> stored.expiresIn,
   refresh_token |-> stored.refreshToken,
   scope |-> stored.scope]

\* The JSON body of the 200 response.
TokenResponseBody(stored) ==
  [access_token |-> stored.accessToken,
   token_type |-> "Bearer",
   expires_in |-> stored.expiresIn,
   refresh_token |-> stored.refreshToken,
   scope |-> stored.scope]

\* The answer to a token request, given the map the lookup reads. req is the
\* request answered and stored the record it read: they are not sent, they
\* tell what the answer was an answer to.
TokenResponse(codes, b) ==
  IF ~MapHas(codes, b.code)
  THEN [ep |-> "token", status |-> 400, error |-> "invalid_grant",
        error_description |-> "Invalid or expired authorization code",
        req |-> b]
  ELSE IF ~PkcePasses(codes[b.code], b.code_verifier)
  THEN [ep |-> "token", status |-> 400, error |-> "invalid_grant",
        error_description |-> "PKCE verification failed",
        req |-> b, stored |-> codes[b.code]]
  ELSE [ep |-> "token", status |-> 200, error |-> Undefined,
        body |-> TokenResponseBody(codes[b.code]),
        req |-> b, stored |-> codes[b.code]]

\* The delete done only once PKCE has passed, never on a failed attempt.
ConsumeCode_Keep(codes, code) == codes

\* authCodes.delete(code)
ConsumeCode(codes, code) == MapDelete(codes, code)

TokenAuthorizationCode(b) ==
  /\ b.grant_type = "authorization_code"
  /\ lastResponse' = TokenResponse(authCodes, b)
  /\ IF ~MapHas(authCodes, b.code)
     THEN UNCHANGED << authCodes, codeReads >>
     ELSE /\ authCodes' = ConsumeCode(authCodes, b.code)
          /\ codeReads' = Bump(codeReads, b.code)
  /\ UNCHANGED << clientRegistrations, authTransactions, clock, fresh,
                  pendingCallbacks, exchanges, codeOrigin, issued,
                  pendingRefreshes, mcp, todo, obo >>

(* ---------------------------------------------------------------------- *)
(* POST /token, refresh_token grant and the other grant types              *)
(* ---------------------------------------------------------------------- *)
\* The fields of the authorization-server metadata that name what the
\* endpoints accept.
AuthorizationServerMetadata ==
  [response_types_supported |-> {"code"},
   grant_types_supported |-> {"authorization_code", "refresh_token"},
   token_endpoint_auth_methods_supported |-> {"none", "client_secret_post"},
   code_challenge_methods_supported |-> {"S256", "plain"}]

\* Bodies of POST /token of every grant type, grant_type missing included.
GrantBodies ==
  [grant_type : {"authorization_code"}, code : Codes, code_verifier : {"v1"}] \cup
  [grant_type : {"refresh_token"}, refresh_token : {Undefined, "", "R1"}] \cup
  [grant_type : {Undefined, "", "password", "client_credentials"},
   code : {1}, code_verifier : {"v1"}, refresh_token : {"R1"}]

\* The request body of the refresh sent to the Entra token endpoint.
RefreshRequest(b) ==
  [client_id |-> "ENTRA_CLIENT_ID", client_secret |-> "ENTRA_CLIENT_SECRET",
   refresh_token |-> b.refresh_token, grant_type |-> "refresh_token",
   scope |-> "api://ENTRA_CLIENT_ID/mcp-access openid profile email offline_access"]

\* The answer for a refresh request without a refresh token.
MissingRefreshTokenResponse(b) ==
  [ep |-> "token", status |-> 400, error |-> "invalid_request",
   error_description |-> "Missing refresh_token", req |-> b]

\* Only an absent refresh_token refused: an empty one goes to the IdP.
TokenRefreshBegin_AbsentOnly(b) ==
  /\ b.grant_type = "refresh_token"
  /\ IF b.refresh_token = Undefined
     THEN /\ lastResponse' = MissingRefreshTokenResponse(b)
          /\ UNCHANGED pendingRefreshes
     ELSE /\ Cardinality(pendingRefreshes) < MaxRefresh
          /\ pendingRefreshes' =
               pendingRefreshes \cup {[req |-> b, sent |-> RefreshRequest(b)]}
          /\ UNCHANGED lastResponse
  /\ UNCHANGED << stores, clock, fresh, pendingCallbacks, history, mcp, todo, obo >>

\* The refresh grant up to its first await.
TokenRefreshBegin(b) ==
  /\ b.grant_type = "refresh_token"
  /\ IF ~Truthy(b.refresh_token)
     THEN /\ lastResponse' = MissingRefreshTokenResponse(b)
          /\ UNCHANGED pendingRefreshes
     ELSE /\ Cardinality(pendingRefreshes) < MaxRefresh
          /\ pendingRefreshes' =
               pendingRefreshes \cup {[req |-> b, sent |-> RefreshRequest(b)]}
          /\ UNCHANGED lastResponse
  /\ UNCHANGED << stores, clock, fresh, pendingCallbacks, history, mcp, todo, obo >>

\* The refresh token of the request handed back instead of the IdP's.
RefreshResponse_Stale(r, tokenData) ==
  IF Truthy(tokenData.error)
  THEN [ep |-> "token", status |-> 400, error |-> tokenData.error,
        body |-> tokenData, req |-> r.req]
  ELSE [ep |-> "token", status |-> 200, error |-> Undefined,
        body |-> [access_token |-> tokenData.access_token,
                  token_type |-> "Bearer",
                  expires_in |-> tokenData.expires_in,
                  refresh_token |-> r.req.refresh_token,
                  scope |-> tokenData.scope],
        req |-> r.req]

\* The answer once the IdP has answered the refresh with tokenData.
RefreshResponse(r, tokenData) ==
  IF Truthy(tokenData.error)
  THEN [ep |-> "token", status |-> 400, error |-> tokenData.error,
        body |-> tokenData, req |-> r.req]
  ELSE [ep |-> "token", status |-> 200, error |-> Undefined,
        body |-> [access_token |-> tokenData.access_token,
                  token_type |-> "Bearer",
                  expires_in |-> tokenData.expires_in,
                  refresh_token |-> tokenData.refresh_token,
                  scope |-> tokenData.scope],
        req |-> r.req]

\* The two awaits of the refresh resolve.
TokenRefreshResumes(r, tokenData) ==
  /\ r \in pendingRefreshes
  /\ pendingRefreshes' = pendingRefreshes \ {r}
  /\ lastResponse' = RefreshResponse(r, tokenData)
  /\ UNCHANGED << stores, clock, fresh, pendingCallbacks, history, mcp, todo, obo >>

\* `await fetch(...)` or `await tokenResponse.json()` of the refresh rejects.
TokenRefreshThrows(r) ==
  /\ r \in pendingRefreshes
  /\ pendingRefreshes' = pendingRefreshes \ {r}
  /\ lastResponse' =
       [ep |-> "token", status |-> 500, error |-> "server_error",
        error_description |-> "Failed to refresh token", req |-> r.req]
  /\ UNCHANGED << stores, clock, fresh, pendingCallbacks, history, mcp, todo, obo >>

\* The answer to a grant type the handler has no branch for.
UnsupportedGrantResponse(b) ==
  [ep |-> "token", status |-> 400, error |-> "unsupported_grant_type", req |-> b]

TokenUnsupported(b) ==
  /\ lastResponse' = UnsupportedGrantResponse(b)
  /\ UNCHANGED << stores, clock, fresh, pendingCallbacks, pendingRefreshes,
                  history, mcp, todo, obo >>

\* The handler without its refresh branch.
Token_NoRefresh(b) ==
  IF b.grant_type = "authorization_code" THEN TokenAuthorizationCode(b)
  ELSE TokenUnsupported(b)

\* POST /token: the branches of the handler by grant_type.
Token(b) ==
  IF b.grant_type = "authorization_code" THEN TokenAuthorizationCode(b)
  ELSE IF b.grant_type = "refresh_token" THEN TokenRefreshBegin(b)
  ELSE TokenUnsupported(b)

(* ---------------------------------------------------------------------- *)
(* POST /revoke                                                            *)
(* ---------------------------------------------------------------------- *)
\* Bodies of POST /revoke (RFC 7009): the handler names its request `_req`
\* and reads nothing of it.
RevokeBodies ==
  [token : {Undefined, "JWT1", "R1"}, token_type_hint : {Undefined, "refresh_token"}]

\* res.status(200).json({}): json is the set of members of the object sent.
RevokeResponse(b) ==
  [ep |-> "revoke", status |-> 200, json |-> {}, req |-> b]

\* A revocation that drops the code records.
Revoke_ClearsCodes(b) ==
  /\ lastResponse' = RevokeResponse(b)
  /\ authCodes' = << >>
  /\ UNCHANGED << clientRegistrations, authTransactions, clock, fresh,
                  pendingCallbacks, pendingRefreshes, history, mcp, todo, obo >>

Revoke(b) ==
  /\ lastResponse' = RevokeResponse(b)
  /\ UNCHANGED << stores, clock, fresh, pendingCallbacks, pendingRefreshes,
                  history, mcp, todo, obo >>

(* ---------------------------------------------------------------------- *)
(* The sweeper and the passage of time                                     *)
(* ---------------------------------------------------------------------- *)
\* No transaction is old enough for the sweeper.
SweepTransactions_KeepAll(m, t) == m

SweepTransactions(m, t) ==
  [k \in {x \in DOMAIN m : ~(t - m[x].createdAt > TRANSACTION_TTL)} |-> m[k]]
\* The comparison with the TTL turned into "at least".
SweepCodes_AtTtl(m, t) ==
  [k \in {x \in DOMAIN m : ~(t - m[x].createdAt >= CODE_TTL)} |-> m[k]]

SweepCodes(m, t) ==
  [k \in {x \in DOMAIN m : ~(t - m[x].createdAt > CODE_TTL)} |-> m[k]]

\* One run of the setInterval callback.
Sweep ==
  /\ now >= nextSweep
  /\ authTransactions' = SweepTransactions(authTransactions, now)
  /\ authCodes' = SweepCodes(authCodes, now)
  /\ nextSweep' = nextSweep + SWEEP_INTERVAL
  /\ UNCHANGED << clientRegistrations, now, fresh, pendingCallbacks,
                  lastResponse, history, pendingRefreshes, mcp, todo, obo >>

\* Time passes; a due timer runs before time passes again.
TickClock ==
  /\ now < nextSweep
  /\ now < MaxTicks * Tick
  /\ now' = now + Tick
  /\ UNCHANGED << stores, nextSweep, fresh, pendingCallbacks, lastResponse,
                  history, pendingRefreshes, mcp, todo, obo >>

(* ---------------------------------------------------------------------- *)
(* Bearer tokens (src/auth/validate-jwt.ts, jsonwebtoken, jwks-rsa)        *)
(* ---------------------------------------------------------------------- *)
\* `https://login.microsoftonline.com/${tenantId()}/v2.0`
Issuer == "https://login.microsoftonline.com/TENANT/v2.0"
\* clientId() of a configured deployment
Audience == "ENTRA_CLIENT_ID"
\* The value of the WWW-Authenticate header.
PrmChallenge ==
  "Bearer resource_metadata=\"BASE/.well-known/oauth-protected-resource\""

\* kids of the keys the IdP publishes at the JWKS URI.
JwksKids == {"k1"}
\* What the JWKS client can resolve when asked: the published keys, or nothing
\* when the fetch fails or the rate limit is hit.
JwksOutcomes == {JwksKids, {}}

\* obj[c] of a JSON object, undefined for a claim it does not carry.
Get(obj, c) == IF c \in DOMAIN obj THEN obj[c] ELSE Undefined
\* The JSON object without claim c.
Drop(obj, c) == [x \in DOMAIN obj \ {c} |-> obj[x]]

\* A JWT is its header, its payload and the key that made its signature; a
\* string that is no JWT has none of them. scp is kept as the words between
\* its single spaces, exp and nbf are seconds.
GoodPayload ==
  [iss |-> Issuer, aud |-> Audience, exp |-> 3600, oid |-> "u1",
   scp |-> <<"mcp-access", "", "todo.read">>, name |-> "User One",
   preferred_username |-> "u1@tenant", sub |-> "s1", tid |-> "TENANT"]
GoodToken ==
  [fmt |-> "jwt", header |-> [alg |-> "RS256", kid |-> "k1"],
   payload |-> GoodPayload, signedBy |-> "k1"]
GarbageToken == [fmt |-> "garbage"]
ExpiredToken == [GoodToken EXCEPT !.payload = [GoodPayload EXCEPT !.exp = 0]]

\* The good token and the tokens that differ from it in one place.
Tokens ==
  { GoodToken, GarbageToken,
    [GoodToken EXCEPT !.header = [alg |-> "RS256"]],
    [GoodToken EXCEPT !.header = [alg |-> "RS256", kid |-> "kX"],
                      !.signedBy = "kX"],
    [GoodToken EXCEPT !.signedBy = "attacker"],
    [GoodToken EXCEPT !.header = [alg |-> "RS384", kid |-> "k1"]],
    [GoodToken EXCEPT !.payload = [GoodPayload EXCEPT !.iss = "https://evil/v2.0"]],
    [GoodToken EXCEPT !.payload = [GoodPayload EXCEPT !.aud = "other-api"]],
    ExpiredToken,
    [GoodToken EXCEPT !.payload = Drop(GoodPayload, "exp")],
    [GoodToken EXCEPT !.payload = MapSet(GoodPayload, "nbf", 60)],
    [GoodToken EXCEPT !.payload = Drop(GoodPayload, "oid")],
    [GoodToken EXCEPT !.payload = [GoodPayload EXCEPT !.oid = ""]],
    [GoodToken EXCEPT !.payload =
       [iss |-> Issuer, aud |-> Audience, exp |-> 3600, oid |-> "u2"]] }

\* Authorization headers: none, another scheme, and Bearer with each token.
NoHeader == [scheme |-> Undefined]
AuthorizationHeaders ==
  { NoHeader, [scheme |-> "bearer ", token |-> GoodToken],
    [scheme |-> "Basic ", token |-> GoodToken] } \cup
  { [scheme |-> "Bearer ", token |-> t] : t \in Tokens }

\* authHeader && authHeader.startsWith("Bearer ")
HasBearer(authHeader) ==
  authHeader.scheme # Undefined /\ authHeader.scheme = "Bearer "
\* authHeader.split(" ")[1]
BearerToken(authHeader) == authHeader.token

\* jwt.decode(token, { complete: true }) returns an object (and not null).
Decoded(token) == token.fmt = "jwt"

\* getSigningKey(header) against what the JWKS client can resolve: the key,
\* named by its kid, or a rejection.
Rejected == "<rejected>"
GetSigningKey(header, keys) ==
  IF ~Truthy(Get(header, "kid")) THEN Rejected
  ELSE IF header.kid \notin keys THEN Rejected
  ELSE header.kid

\* jwt.verify(token, signingKey, verifyOptions) returns the payload (and does
\* not throw), at clock t: algorithm, signature, nbf, exp, audience, issuer.
JwtVerify(token, signingKey, t) ==
  /\ token.header.alg \in {"RS256"}
  /\ token.signedBy = signingKey
  /\ "nbf" \in DOMAIN token.payload => ~(token.payload.nbf > t)
  /\ "exp" \in DOMAIN token.payload => ~(t >= token.payload.exp)
  /\ Get(token.payload, "aud") = Audience
  /\ Get(token.payload, "iss") = Issuer

\* (payload.scp || "").split(" ").filter(Boolean)
Scopes(payload) ==
  SelectSeq(IF "scp" \in DOMAIN payload THEN payload.scp ELSE <<"">>,
            LAMBDA w : w # "")

\* The McpAuthInfo assigned to req.auth.
AuthInfo(token, payload) ==
  [token |-> token,
   clientId |-> OrElse(Get(payload, "aud"), Audience),
   scopes |-> Scopes(payload),
   claims |-> [oid |-> Get(payload, "oid"),
               name |-> Get(payload, "name"),
               preferred_username |-> Get(payload, "preferred_username"),
               sub |-> Get(payload, "sub"),
               tid |-> Get(payload, "tid")]]

\* Date.now() in seconds, as jwt.verify reads it.
ClockTimestamp == now \div 1000

\* What a middleware does with a request: it answers, it calls next(), with
\* req.auth set or not, or it is suspended at getSigningKey.
Answer(status, headers, body) ==
  [kind |-> "response", status |-> status, headers |-> headers, body |-> body]
NextWithAuth(auth) == [kind |-> "next", auth |-> auth]
NextWithoutAuth == [kind |-> "next"]
Suspended == [kind |-> "suspended"]

\* The challenge sent without its header.
ValidateJwtBegin_NoChallenge(req) ==
  IF ~HasBearer(req.authorization)
  THEN Answer(401, {},
              [error |-> "unauthorized",
               message |-> "Bearer token required. Authenticate via the MCP authorization flow."])
  ELSE IF ~Decoded(BearerToken(req.authorization))
  THEN Answer(401, {}, [error |-> "Invalid token format"])
  ELSE Suspended

\* validateJwt up to getSigningKey.
ValidateJwtBegin(req) ==
  IF ~HasBearer(req.authorization)
  THEN Answer(401, {<<"WWW-Authenticate", PrmChallenge>>},
              [error |-> "unauthorized",
               message |-> "Bearer token required. Authenticate via the MCP authorization flow."])
  ELSE IF ~Decoded(BearerToken(req.authorization))
  THEN Answer(401, {}, [error |-> "Invalid token format"])
  ELSE Suspended

\* The catch of the permissive variant in the strict one.
ValidateJwtSettled_FallThrough(req, keys) ==
  LET token == BearerToken(req.authorization)
      signingKey == GetSigningKey(token.header, keys)
  IN IF signingKey # Rejected /\ JwtVerify(token, signingKey, ClockTimestamp)
     THEN NextWithAuth(AuthInfo(token, token.payload))
     ELSE NextWithoutAuth

\* validateJwt once getSigningKey has settled: .then or .catch.
ValidateJwtSettled(req, keys) ==
  LET token == BearerToken(req.authorization)
      signingKey == GetSigningKey(token.header, keys)
  IN IF signingKey # Rejected /\ JwtVerify(token, signingKey, ClockTimestamp)
     THEN NextWithAuth(AuthInfo(token, token.payload))
     ELSE Answer(401, {}, [error |-> "Invalid or expired token"])

\* validateJwtOptional up to getSigningKey.
ValidateJwtOptionalBegin(req) ==
  IF ~HasBearer(req.authorization) THEN NextWithoutAuth
  ELSE IF ~Decoded(BearerToken(req.authorization)) THEN NextWithoutAuth
  ELSE Suspended

\* The verification of the permissive variant without the issuer option.
ValidateJwtOptionalSettled_NoIssuer(req, keys) ==
  LET token == BearerToken(req.authorization)
      signingKey == GetSigningKey(token.header, keys)
  IN IF /\ signingKey # Rejected
        /\ JwtVerify(IF "iss" \in DOMAIN token.payload
                     THEN [token EXCEPT !.payload.iss = Issuer] ELSE token,
                     signingKey, ClockTimestamp)
     THEN NextWithAuth(AuthInfo(token, token.payload))
     ELSE NextWithoutAuth

\* validateJwtOptional once getSigningKey has settled.
ValidateJwtOptionalSettled(req, keys) ==
  LET token == BearerToken(req.authorization)
      signingKey == GetSigningKey(token.header, keys)
  IN IF signingKey # Rejected /\ JwtVerify(token, signingKey, ClockTimestamp)
     THEN NextWithAuth(AuthInfo(token, token.payload))
     ELSE NextWithoutAuth

(* ---------------------------------------------------------------------- *)
(* POST /mcp and GET /mcp (src/index.ts)                                   *)
(* ---------------------------------------------------------------------- *)
\* crypto.randomUUID() of the n-th transport.
SessionId(n) == "sid" \o ToString(n)

\* Requests to /mcp: every Authorization header on a request without a
\* session id, and a few of them on requests that name a session.
McpRequests ==
  [method : {"POST", "GET"}, authorization : AuthorizationHeaders,
   sessionId : {Undefined}, rpc : {"initialize"}] \cup
  [method : {"POST", "GET"},
   authorization : {NoHeader, [scheme |-> "Bearer ", token |-> GoodToken],
                    [scheme |-> "Bearer ", token |-> ExpiredToken]},
   sessionId : {SessionId(1)}, rpc : {"initialize", "tools/call"}]

\* The middleware of the route.
MiddlewareBegin(req) ==
  IF req.method = "POST" THEN ValidateJwtBegin(req)
  ELSE ValidateJwtOptionalBegin(req)
MiddlewareSettled(req, keys) ==
  IF req.method = "POST" THEN ValidateJwtSettled(req, keys)
  ELSE ValidateJwtOptionalSettled(req, keys)

\* sessionId ? sessions.get(sessionId) : undefined, found
HasSession(req) == Truthy(req.sessionId) /\ MapHas(sessions, req.sessionId)

\* The record of an answer: the request it answers, whether a route handler
\* ran for it, and req.auth as the handler saw it.
McpResponse(req, status, headers, body) ==
  [ep |-> "mcp", status |-> status, headers |-> headers, body |-> body,
   handled |-> FALSE, req |-> req]
Handled(req, outcome, status, headers, body) ==
  LET resp == [ep |-> "mcp", status |-> status, headers |-> headers,
               body |-> body, handled |-> TRUE, req |-> req]
  IN IF "auth" \in DOMAIN outcome
     THEN [x \in DOMAIN resp \cup {"auth"} |->
             IF x = "auth" THEN outcome.auth ELSE resp[x]]
     ELSE resp

\* new StreamableHTTPServerTransport(...): no session id yet, not closed.
NewTransport == [sessionId |-> Undefined, closed |-> FALSE]

\* transport.handleRequest of a transport without a session id: it takes the
\* id of sessionIdGenerator on an initialize request.
Initialized(transport, req, n) ==
  IF req.rpc = "initialize"
  THEN [transport EXCEPT !.sessionId = SessionId(n)]
  ELSE transport

\* The POST /mcp handler when nothing else runs during its awaits. An
\* existing session gets the request; otherwise a transport and a server are
\* created and the transport handles the request: it takes a session id on
\* initialize, and the session is stored; it refuses any other call.
McpPost(req, outcome) ==
  IF HasSession(req)
  THEN /\ lastResponse' =
            Handled(req, outcome, 200, {},
                    [transport |-> sessions[req.sessionId].transport])
       /\ UNCHANGED << sessions, nextTransport, live >>
  ELSE /\ nextTransport <= MaxSessions
       /\ nextTransport' = nextTransport + 1
       /\ transports' = MapSet(transports, nextTransport,
                               Initialized(NewTransport, req, nextTransport))
       /\ UNCHANGED << pendingPosts, pendingDeletes, closedSessions >>
       /\ IF req.rpc = "initialize"
          THEN /\ sessions' = MapSet(sessions, SessionId(nextTransport),
                                     [transport |-> nextTransport])
               /\ lastResponse' =
                    Handled(req, outcome, 200,
                            {<<"mcp-session-id", SessionId(nextTransport)>>},
                            [transport |-> nextTransport])
          ELSE /\ sessions' = sessions
               /\ lastResponse' =
                    Handled(req, outcome, 400, {},
                            [error |-> "Bad Request: Server not initialized"])

\* The GET /mcp handler.
McpGet(req, outcome) ==
  /\ lastResponse' =
       IF HasSession(req)
       THEN Handled(req, outcome, 200, {},
                    [transport |-> sessions[req.sessionId].transport])
       ELSE Handled(req, outcome, 400, {},
                    [error |-> "Bad Request: No active session"])
  /\ UNCHANGED << sessions, nextTransport, live >>

\* What follows the middleware: its answer, or the route handler.
AfterMiddleware(req, outcome) ==
  IF outcome.kind = "response"
  THEN /\ lastResponse' =
            McpResponse(req, outcome.status, outcome.headers, outcome.body)
       /\ UNCHANGED << sessions, nextTransport, live >>
  ELSE IF req.method = "POST" THEN McpPost(req, outcome)
  ELSE McpGet(req, outcome)

\* A request to /mcp arrives: the middleware answers, calls the handler, or
\* is suspended at getSigningKey.
McpRequest(req) ==
  LET outcome == MiddlewareBegin(req) IN
  /\ IF outcome.kind = "suspended"
     THEN /\ Cardinality(pendingValidations) < MaxPending
          /\ pendingValidations' = pendingValidations \cup {req}
          /\ UNCHANGED << lastResponse, sessions, nextTransport, live >>
     ELSE /\ AfterMiddleware(req, outcome)
          /\ UNCHANGED pendingValidations
  /\ UNCHANGED << proxy, todo, obo >>

\* getSigningKey settles for a suspended request.
McpValidationSettles(req, keys) ==
  /\ req \in pendingValidations
  /\ pendingValidations' = pendingValidations \ {req}
  /\ AfterMiddleware(req, MiddlewareSettled(req, keys))
  /\ UNCHANGED << proxy, todo, obo >>

(* ---------------------------------------------------------------------- *)
(* The sessions of /mcp, each handler up to its awaits (src/index.ts)      *)
(* ---------------------------------------------------------------------- *)
\* Values of the mcp-session-id header: none, and the id of the first
\* transport, which is the key of no session before that transport has taken
\* it and after its session is removed.
SessionIdHeaders == {Undefined, SessionId(1)}

GoodBearer == [scheme |-> "Bearer ", token |-> GoodToken]

\* Requests to /mcp in the life of a session.
SessionRequests ==
  [method : {"POST"}, authorization : {GoodBearer},
   sessionId : SessionIdHeaders, rpc : {"initialize", "tools/call"}] \cup
  [method : {"GET"},
   authorization : {NoHeader, [scheme |-> "Bearer ", token |-> ExpiredToken]},
   sessionId : SessionIdHeaders, rpc : {Undefined}] \cup
  [method : {"DELETE"}, authorization : {NoHeader},
   sessionId : SessionIdHeaders, rpc : {Undefined}]

\* What the transport answers to the first request it handles.
FirstAnswer(req, outcome, n) ==
  IF req.rpc = "initialize"
  THEN Handled(req, outcome, 200, {<<"mcp-session-id", SessionId(n)>>},
               [transport |-> n])
  ELSE Handled(req, outcome, 400, {},
               [error |-> "Bad Request: Server not initialized"])

\* The POST /mcp handler up to its first await. An existing session gets the
\* request, and the handler does nothing after that await; otherwise the
\* transport and the server are created, onclose is set and the handler
\* suspends at srv.connect(transport).
McpPostBegin(req, outcome) ==
  IF HasSession(req)
  THEN /\ lastResponse' =
            Handled(req, outcome, 200, {},
                    [transport |-> sessions[req.sessionId].transport])
       /\ UNCHANGED << sessions, nextTransport, live >>
  ELSE /\ nextTransport <= MaxTransports
       /\ Cardinality(pendingPosts) < MaxHandlers
       /\ nextTransport' = nextTransport + 1
       /\ transports' = MapSet(transports, nextTransport, NewTransport)
       /\ pendingPosts' = pendingPosts \cup
            { [req |-> req, outcome |-> outcome, transport |-> nextTransport,
               at |-> "connect"] }
       /\ UNCHANGED << lastResponse, sessions, pendingDeletes, closedSessions >>

\* srv.connect has resolved: the handler calls transport.handleRequest, the
\* transport handles the request and answers it, and the handler suspends
\* again.
McpPostConnected(p) ==
  /\ p \in pendingPosts /\ p.at = "connect"
  /\ transports' = MapSet(transports, p.transport,
                          Initialized(transports[p.transport], p.req, p.transport))
  /\ lastResponse' = FirstAnswer(p.req, p.outcome, p.transport)
  /\ pendingPosts' = (pendingPosts \ {p}) \cup {[p EXCEPT !.at = "handle"]}
  /\ UNCHANGED << proxy, todo, obo, pendingValidations, sessions,
                  nextTransport, pendingDeletes, closedSessions >>

\* The sessions.set left out.
StoreSession_Skipped(map, transport, n) == map

\* if (transport.sessionId) sessions.set(transport.sessionId, {transport, server})
StoreSession(map, transport, n) ==
  IF Truthy(transport.sessionId)
  THEN MapSet(map, transport.sessionId, [transport |-> n])
  ELSE map

\* transport.handleRequest has resolved: the end of the handler.
McpPostResumes(p) ==
  /\ p \in pendingPosts /\ p.at = "handle"
  /\ pendingPosts' = pendingPosts \ {p}
  /\ sessions' = StoreSession(sessions, transports[p.transport], p.transport)
  /\ UNCHANGED << proxy, todo, obo, lastResponse, pendingValidations,
                  nextTransport, transports, pendingDeletes, closedSessions >>

\* One of the two awaits rejects: the catch block answers 500 unless the
\* transport has sent the headers already.
McpPostThrows(p) ==
  /\ p \in pendingPosts
  /\ pendingPosts' = pendingPosts \ {p}
  /\ lastResponse' =
       IF p.at = "connect"
       THEN Handled(p.req, p.outcome, 500, {}, [error |-> "Internal server error"])
       ELSE lastResponse
  /\ UNCHANGED << proxy, todo, obo, pendingValidations, sessions,
                  nextTransport, transports, pendingDeletes, closedSessions >>

\* The delete left out.
RemoveSession_Keep(map, sid) == map

\* sessions.delete(sid) of onclose and of DELETE /mcp
RemoveSession(map, sid) == MapDelete(map, sid)

\* Transport n closes and calls onclose, which removes the session of the
\* transport's session id, if it has one.
TransportCloses(n) ==
  /\ n \in DOMAIN transports /\ ~transports[n].closed
  /\ transports' = MapSet(transports, n, [transports[n] EXCEPT !.closed = TRUE])
  /\ sessions' = IF Truthy(transports[n].sessionId)
                 THEN RemoveSession(sessions, transports[n].sessionId)
                 ELSE sessions
  /\ UNCHANGED << proxy, todo, obo, lastResponse, pendingValidations,
                  nextTransport, pendingPosts, pendingDeletes, closedSessions >>

\* The answer of DELETE /mcp.
SessionClosed(req) ==
  Handled(req, NextWithoutAuth, 200, {}, [status |-> "session closed"])

\* The DELETE /mcp handler up to its await: without a session it answers; with
\* one it calls transport.close() and suspends.
McpDelete(req) ==
  /\ req.method = "DELETE"
  /\ IF HasSession(req)
     THEN /\ Cardinality(pendingDeletes) < MaxHandlers
          /\ pendingDeletes' = pendingDeletes \cup
               { [req |-> req, transport |-> sessions[req.sessionId].transport] }
          /\ UNCHANGED lastResponse
     ELSE /\ lastResponse' = SessionClosed(req)
          /\ UNCHANGED pendingDeletes
  /\ UNCHANGED << proxy, todo, obo, pendingValidations, sessions,
                  nextTransport, transports, pendingPosts, closedSessions >>

\* transport.close() has resolved, the transport being closed: the handler
\* removes the session and answers.
McpDeleteResumes(d) ==
  /\ d \in pendingDeletes /\ transports[d.transport].closed
  /\ pendingDeletes' = pendingDeletes \ {d}
  /\ sessions' = RemoveSession(sessions, d.req.sessionId)
  /\ lastResponse' = SessionClosed(d.req)
  /\ closedSessions' = closedSessions \cup {d.req.sessionId}
  /\ UNCHANGED << proxy, todo, obo, pendingValidations, nextTransport,
                  transports, pendingPosts >>

\* What follows the middleware when the handlers run step by step.
AfterMiddlewareSteps(req, outcome) ==
  IF outcome.kind = "response" \/ req.method # "POST"
  THEN AfterMiddleware(req, outcome)
  ELSE McpPostBegin(req, outcome)

\* The middleware of a POST or GET is done with the request: it has answered
\* or suspended and getSigningKey has settled, which reads and writes no
\* session, and the handler runs up to its first await.
McpSessionRequest(req, keys) ==
  /\ req.method # "DELETE"
  /\ LET outcome == MiddlewareBegin(req) IN
     IF outcome.kind = "suspended"
     THEN AfterMiddlewareSteps(req, MiddlewareSettled(req, keys))
     ELSE AfterMiddlewareSteps(req, outcome)
  /\ UNCHANGED << proxy, todo, obo, pendingValidations >>

(* ---------------------------------------------------------------------- *)
(* The todo store (src/store/cosmos-store.ts)                              *)
(* ---------------------------------------------------------------------- *)
\* User ids (the oid claim) the tools call the store with.
UserIds == {"oidA", "oidB"}
\* Todo ids a call can name: 0 is an id createTodo never issued, 1 and 2 are
\* the first two it issues.
TodoIds == {0, 1, 2}
TodoFilters == {"all", "active", "completed"}
\* The updates edit_todo passes: title always, description when given.
TodoUpdates == {[title |-> "t2", description |-> Undefined]}

\* The TodoItem createTodo builds (created_at and updated_at only order the
\* listing: a sequence keeps the newest first).
TodoItem(id, userId, title, description) ==
  [id |-> id, user_id |-> userId, title |-> title, description |-> description,
   completed |-> FALSE]

\* Every user's todos in one list.
GetUserTodos_Shared(store, userId) ==
  IF DOMAIN store = {} THEN << >> ELSE store[CHOOSE u \in DOMAIN store : TRUE]

\* getUserTodos: the list of the user, [] for a user without one.
GetUserTodos(store, userId) ==
  IF MapHas(store, userId) THEN store[userId] ELSE << >>

\* inMemoryStore once getUserTodos(userId) has run and the list is todos.
SetUserTodos(store, userId, todos) == MapSet(store, userId, todos)

\* todos.findIndex((t) => t.id === todoId), counted from 1: 0 is "not found".
FindIndex(todos, todoId) ==
  IF \E i \in DOMAIN todos : todos[i].id = todoId
  THEN CHOOSE i \in DOMAIN todos :
         /\ todos[i].id = todoId
         /\ \A j \in DOMAIN todos : todos[j].id = todoId => i <= j
  ELSE 0

\* The filters of listTodos.
FilterTodos(todos, filter) ==
  SelectSeq(todos, LAMBDA t : \/ filter = "all"
                              \/ filter = "active" /\ ~t.completed
                              \/ filter = "completed" /\ t.completed)

\* SELECT * FROM c WHERE c.user_id = @userId ORDER BY c.created_at DESC
QueryByUser(docs, userId) == SelectSeq(docs, LAMBDA d : d.user_id = userId)

\* container.item(todoId, userId): the position of the document with that id
\* in the partition of that user, 0 when there is none.
PointRead(docs, todoId, userId) ==
  IF \E i \in DOMAIN docs : docs[i].id = todoId /\ docs[i].user_id = userId
  THEN CHOOSE i \in DOMAIN docs : docs[i].id = todoId /\ docs[i].user_id = userId
  ELSE 0

\* What listTodos(userId, filter) returns in a store whose fields are these.
ListIn(cont, mem, docs, userId, filter) ==
  IF cont = Undefined
  THEN FilterTodos(GetUserTodos(mem, userId), filter)
  ELSE FilterTodos(QueryByUser(docs, userId), filter)

ListTodosOf(userId, filter) ==
  ListIn(container, inMemoryStore, cosmosItems, userId, filter)

\* A sequence without its i-th element: todos.splice(i, 1).
Splice(todos, i) ==
  [j \in 1 .. Len(todos) - 1 |-> IF j < i THEN todos[j] ELSE todos[j + 1]]

StoreResult(op, userId, todoId, outcome) ==
  [op |-> op, userId |-> userId, todoId |-> todoId, outcome |-> outcome]

\* ensureInitialized, first call: without an endpoint the store stays in
\* memory (client is null), with one the container is opened.  The
\* constructor fixed which of the two it is; nothing reads it before here.
EnsureInitialized ==
  /\ ~initialized
  /\ initialized' = TRUE
  /\ container' \in {Undefined, "todos"}
  /\ UNCHANGED << inMemoryStore, cosmosItems, nextTodo, pendingStoreOps,
                  storeResult, proxy, lastResponse, mcp, obo >>

\* listTodos
ListTodos(userId, filter) ==
  /\ initialized
  /\ storeResult' = StoreResult("list", userId, 0, "items")
  /\ inMemoryStore' =
       IF container = Undefined
       THEN SetUserTodos(inMemoryStore, userId, GetUserTodos(inMemoryStore, userId))
       ELSE inMemoryStore
  /\ UNCHANGED << initialized, container, cosmosItems, nextTodo, pendingStoreOps,
                  proxy, lastResponse, mcp, obo >>

\* createTodo
CreateTodo(userId, title, description) ==
  /\ initialized
  /\ nextTodo <= MaxTodos
  /\ LET item == TodoItem(nextTodo, userId, title, description) IN
       IF container = Undefined
       THEN /\ inMemoryStore' =
                 SetUserTodos(inMemoryStore, userId,
                              <<item>> \o GetUserTodos(inMemoryStore, userId))
            /\ UNCHANGED cosmosItems
       ELSE /\ cosmosItems' = <<item>> \o cosmosItems
            /\ UNCHANGED inMemoryStore
  /\ nextTodo' = nextTodo + 1
  /\ storeResult' = StoreResult("create", userId, nextTodo, "item")
  /\ UNCHANGED << initialized, container, pendingStoreOps,
                  proxy, lastResponse, mcp, obo >>

\* The item updateTodo leaves in memory: only the fields given change.
UpdatedInMemory(item, updates) ==
  [item EXCEPT !.title = IF updates.title # Undefined THEN updates.title ELSE @,
               !.description =
                 IF updates.description # Undefined THEN updates.description ELSE @]

\* { ...existing, ...updates }: every key of updates wins, undefined too.
UpdatedInCosmos(existing, updates) ==
  [existing EXCEPT !.title = updates.title, !.description = updates.description]

Toggled(item) == [item EXCEPT !.completed = ~@]

\* What op writes over item.
Changed(op, cont, item, updates) ==
  IF op = "toggle" THEN Toggled(item)
  ELSE IF cont = Undefined THEN UpdatedInMemory(item, updates)
  ELSE UpdatedInCosmos(item, updates)

\* updateTodo (op "update") and toggleTodo (op "toggle"): in memory the whole
\* method, with a container the method up to the await of its read.
ChangeTodoBegin(op, userId, todoId, updates) ==
  /\ initialized
  /\ IF container = Undefined
     THEN LET todos == GetUserTodos(inMemoryStore, userId)
              idx == FindIndex(todos, todoId) IN
          /\ inMemoryStore' =
               SetUserTodos(inMemoryStore, userId,
                            IF idx = 0 THEN todos
                            ELSE [todos EXCEPT
                                    ![idx] = Changed(op, container, @, updates)])
          /\ storeResult' =
               StoreResult(op, userId, todoId, IF idx = 0 THEN "null" ELSE "item")
          /\ UNCHANGED pendingStoreOps
     ELSE LET idx == PointRead(cosmosItems, todoId, userId) IN
          IF idx = 0
          THEN /\ storeResult' = StoreResult(op, userId, todoId, "null")
               /\ UNCHANGED << inMemoryStore, pendingStoreOps >>
          ELSE /\ Cardinality(pendingStoreOps) < MaxStoreOps
               /\ pendingStoreOps' =
                    pendingStoreOps \cup
                      {[op |-> op, userId |-> userId, todoId |-> todoId,
                        updated |-> Changed(op, container, cosmosItems[idx], updates)]}
               /\ UNCHANGED << inMemoryStore, storeResult >>
  /\ UNCHANGED << initialized, container, cosmosItems, nextTodo,
                  proxy, lastResponse, mcp, obo >>

\* container.item(todoId, userId).replace(updated) settles: the document is
\* replaced, or the call rejects because the document is gone and the
\* method throws.
ChangeTodoReplace(r) ==
  /\ r \in pendingStoreOps
  /\ pendingStoreOps' = pendingStoreOps \ {r}
  /\ LET idx == PointRead(cosmosItems, r.todoId, r.userId) IN
       IF idx = 0
       THEN /\ storeResult' = StoreResult(r.op, r.userId, r.todoId, "threw")
            /\ UNCHANGED cosmosItems
       ELSE /\ storeResult' = StoreResult(r.op, r.userId, r.todoId, "item")
            /\ cosmosItems' = [cosmosItems EXCEPT ![idx] = r.updated]
  /\ UNCHANGED << initialized, container, inMemoryStore, nextTodo,
                  proxy, lastResponse, mcp, obo >>

\* deleteTodo: with a container a failed delete is caught and reported as
\* false.
DeleteTodo(userId, todoId) ==
  /\ initialized
  /\ IF container = Undefined
     THEN LET todos == GetUserTodos(inMemoryStore, userId)
              idx == FindIndex(todos, todoId) IN
          /\ inMemoryStore' =
               SetUserTodos(inMemoryStore, userId,
                            IF idx = 0 THEN todos ELSE Splice(todos, idx))
          /\ storeResult' =
               StoreResult("delete", userId, todoId,
                           IF idx = 0 THEN "false" ELSE "true")
          /\ UNCHANGED cosmosItems
     ELSE LET idx == PointRead(cosmosItems, todoId, userId) IN
          /\ cosmosItems' = IF idx = 0 THEN cosmosItems ELSE Splice(cosmosItems, idx)
          /\ storeResult' =
               StoreResult("delete", userId, todoId,
                           IF idx = 0 THEN "false" ELSE "true")
          /\ UNCHANGED inMemoryStore
  /\ UNCHANGED << initialized, container, nextTodo, pendingStoreOps,
                  proxy, lastResponse, mcp, obo >>

(* ---------------------------------------------------------------------- *)
(* get_user_info and the OBO helper (src/tools.ts, src/auth/obo-helper.ts) *)
(* ---------------------------------------------------------------------- *)
\* process.env as a call finds it: the three gateway credentials.
AllCredentials ==
  [ENTRA_CLIENT_ID |-> "id", ENTRA_CLIENT_SECRET |-> "secret",
   ENTRA_TENANT_ID |-> "tenant"]
Environments ==
  { AllCredentials,
    [AllCredentials EXCEPT !.ENTRA_CLIENT_ID = Undefined],
    [AllCredentials EXCEPT !.ENTRA_CLIENT_SECRET = ""],
    [AllCredentials EXCEPT !.ENTRA_TENANT_ID = Undefined] }

\* extractToken(extra): the bearer token of the session, Undefined for null.
ExtraTokens == {Undefined, "JWT1", "JWT2"}

\* How cca.acquireTokenOnBehalfOf settles: it rejects, or resolves with null
\* or with a response.
OboOutcomes ==
  { [settled |-> "rejected", message |-> "AADSTS65001 consent required"],
    [settled |-> "rejected", message |-> "AADSTS50013 assertion invalid"],
    [settled |-> "null"],
    [settled |-> "response", accessToken |-> ""],
    [settled |-> "response", accessToken |-> "G1"],
    [settled |-> "response", accessToken |-> "G2"] }

\* How the call of Graph /me settles: fetch rejects, or resolves with a
\* response whose body parses to json or does not parse.
GraphOutcomes ==
  { [settled |-> "rejected", message |-> "fetch failed"],
    [settled |-> "response", ok |-> FALSE, status |-> 403, body |-> "Forbidden",
     json |-> "none"],
    [settled |-> "response", ok |-> TRUE, status |-> 200, body |-> "{",
     json |-> "invalid"],
    [settled |-> "response", ok |-> TRUE, status |-> 200, body |-> "null",
     json |-> "null"],
    [settled |-> "response", ok |-> TRUE, status |-> 200, body |-> "{...}",
     json |-> "profile"] }

\* The messages of the errors getUserProfile throws itself.
MissingCredentialsMessage ==
  "Missing ENTRA_CLIENT_ID, ENTRA_CLIENT_SECRET, or ENTRA_TENANT_ID environment variables"
NoAccessTokenMessage == "OBO token exchange failed - no access token returned"
GraphFailedMessage(status, body) ==
  "Graph API /me failed (" \o ToString(status) \o "): " \o body

\* The instance constructed and memoized before the credentials are looked at.
GetCca_CreateFirst(env) ==
  IF ccaInstance # 0
  THEN [threw |-> FALSE, instance |-> ccaInstance, created |-> ccaCreated]
  ELSE IF ~( Truthy(env.ENTRA_CLIENT_ID) /\ Truthy(env.ENTRA_CLIENT_SECRET)
             /\ Truthy(env.ENTRA_TENANT_ID) )
  THEN [threw |-> TRUE, instance |-> ccaCreated + 1, created |-> ccaCreated + 1]
  ELSE [threw |-> FALSE, instance |-> ccaCreated + 1, created |-> ccaCreated + 1]

\* getCca(): whether it throws, and ccaInstance and the number of instances
\* constructed once it has run.
GetCca(env) ==
  IF ccaInstance # 0
  THEN [threw |-> FALSE, instance |-> ccaInstance, created |-> ccaCreated]
  ELSE IF ~( Truthy(env.ENTRA_CLIENT_ID) /\ Truthy(env.ENTRA_CLIENT_SECRET)
             /\ Truthy(env.ENTRA_TENANT_ID) )
  THEN [threw |-> TRUE, instance |-> ccaInstance, created |-> ccaCreated]
  ELSE [threw |-> FALSE, instance |-> ccaCreated + 1, created |-> ccaCreated + 1]

\* authError()
AuthError(token) ==
  [kind |-> "tool_result", isError |-> TRUE, action |-> "error",
   text |-> "Authentication required. Please sign in with your Entra ID account.",
   token |-> token]

\* The error leaving the handler instead of being caught.
UserInfoCatch_Rethrow(token, message) ==
  [kind |-> "exception", isError |-> FALSE, action |-> "none",
   text |-> message, token |-> token]

\* The catch block of the handler, err.message being message.
UserInfoCatch(token, message) ==
  [kind |-> "tool_result", isError |-> TRUE, action |-> "error",
   text |-> "Failed to get user info: " \o message, token |-> token]

\* The result for a profile.
UserInfoResult(token) ==
  [kind |-> "tool_result", isError |-> FALSE, action |-> "user_info",
   text |-> "User: displayName (mail)", token |-> token]

\* The handler up to the await of cca.acquireTokenOnBehalfOf.
GetUserInfoBegin(token, env) ==
  /\ IF ~Truthy(token)
     THEN /\ toolResult' = AuthError(token)
          /\ UNCHANGED << ccaInstance, ccaCreated, pendingUserInfo >>
     ELSE LET cca == GetCca(env) IN
          /\ ccaInstance' = cca.instance
          /\ ccaCreated' = cca.created
          /\ IF cca.threw
             THEN /\ toolResult' = UserInfoCatch(token, MissingCredentialsMessage)
                  /\ UNCHANGED pendingUserInfo
             ELSE /\ Cardinality(pendingUserInfo) < MaxToolCalls
                  /\ pendingUserInfo' =
                       pendingUserInfo \cup
                         {[token |-> token, stage |-> "obo", cca |-> cca.instance,
                           accessToken |-> Undefined]}
                  /\ UNCHANGED toolResult
  /\ UNCHANGED << proxy, lastResponse, mcp, todo >>

\* cca.acquireTokenOnBehalfOf settles: the handler up to the await of fetch.
OboSettles(r, outcome) ==
  /\ r \in pendingUserInfo /\ r.stage = "obo"
  /\ IF outcome.settled = "rejected"
     THEN /\ toolResult' = UserInfoCatch(r.token, outcome.message)
          /\ pendingUserInfo' = pendingUserInfo \ {r}
     ELSE IF outcome.settled = "null" \/ ~Truthy(outcome.accessToken)
     THEN /\ toolResult' = UserInfoCatch(r.token, NoAccessTokenMessage)
          /\ pendingUserInfo' = pendingUserInfo \ {r}
     ELSE /\ pendingUserInfo' =
               (pendingUserInfo \ {r}) \cup
                 {[r EXCEPT !.stage = "graph", !.accessToken = outcome.accessToken]}
          /\ UNCHANGED toolResult
  /\ UNCHANGED << ccaInstance, ccaCreated, proxy, lastResponse, mcp, todo >>

\* The message of the error the rest of the handler ends with, Undefined
\* when it ends with a profile.
GraphFailure(outcome) ==
  IF outcome.settled = "rejected" THEN outcome.message
  ELSE IF ~outcome.ok THEN GraphFailedMessage(outcome.status, outcome.body)
  ELSE IF outcome.json = "invalid" THEN "Unexpected end of JSON input"
  ELSE IF outcome.json = "null"
  THEN "Cannot read properties of null (reading 'displayName')"
  ELSE Undefined

\* fetch of Graph /me settles, and the awaits of the body after it: the rest
\* of the handler.
GraphSettles(r, outcome) ==
  /\ r \in pendingUserInfo /\ r.stage = "graph"
  /\ pendingUserInfo' = pendingUserInfo \ {r}
  /\ toolResult' =
       IF GraphFailure(outcome) # Undefined
       THEN UserInfoCatch(r.token, GraphFailure(outcome))
       ELSE UserInfoResult(r.token)
  /\ UNCHANGED << ccaInstance, ccaCreated, proxy, lastResponse, mcp, todo >>

(* ---------------------------------------------------------------------- *)
(* The tools and their context (src/tools.ts)                              *)
(* ---------------------------------------------------------------------- *)
\* a ?? b, null and undefined being one value
Coalesce(a, b) == IF a = Undefined THEN b ELSE a

\* The extra context of a tool call: authInfo.claims.oid and authInfo.token,
\* _meta.authInfo.claims.oid and _meta.authInfo.token, and userId. The todo
\* tools read no token, and read _meta only without an oid in authInfo;
\* get_user_info reads no oid.
TodoExtras ==
  [oid : {Undefined, ""}, metaOid : {Undefined, "oidA"}, userId : {Undefined},
   token : {"JWT1"}, metaToken : {Undefined}] \cup
  [oid : {"oidA"}, metaOid : {Undefined}, userId : {Undefined},
   token : {"JWT1"}, metaToken : {Undefined}]
UserInfoExtras ==
  [oid : {"oidA"}, metaOid : {Undefined}, userId : {Undefined},
   token : {Undefined, "", "JWT1"}, metaToken : {Undefined, "JWT1"}]

\* A default identity in the place of null.
ExtractUserId_Anonymous(extra) ==
  Coalesce(Coalesce(Coalesce(extra.oid, extra.metaOid), extra.userId), "anonymous")

\* extractUserId(extra), Undefined for null
ExtractUserId(extra) ==
  Coalesce(Coalesce(extra.oid, extra.metaOid), extra.userId)

\* extractToken(extra), Undefined for null
ExtractToken(extra) == Coalesce(extra.token, extra.metaToken)

TodoTools == {"list_todos", "add_todo", "toggle_todo", "edit_todo", "delete_todo"}
\* todo_id of a call: the first todo.
ToolTodoIds == {1}

\* authError() as the result of tool.
ToolAuthError(tool) ==
  [kind |-> "tool_result", isError |-> TRUE, action |-> "error",
   text |-> "Authentication required. Please sign in with your Entra ID account.",
   token |-> Undefined, tool |-> tool]

\* The handler of a todo tool up to its first await in the store: without a
\* user id it returns authError(); with one it calls the store, which
\* initializes itself on its first call and runs the method on the others.
TodoToolCall(tool, extra, todoId) ==
  LET userId == ExtractUserId(extra) IN
  IF ~Truthy(userId)
  THEN /\ toolResult' = ToolAuthError(tool)
       /\ UNCHANGED << proxy, lastResponse, mcp, todo, ccaInstance, ccaCreated,
                       pendingUserInfo >>
  ELSE IF ~initialized THEN EnsureInitialized
  ELSE IF tool = "list_todos" THEN ListTodos(userId, "all")
  ELSE IF tool = "add_todo" THEN CreateTodo(userId, "t1", "")
  ELSE IF tool = "delete_todo" THEN DeleteTodo(userId, todoId)
  ELSE \E updates \in TodoUpdates :
         ChangeTodoBegin(IF tool = "toggle_todo" THEN "toggle" ELSE "update",
                         userId, todoId, updates)

\* How the awaits of get_user_info settle in SpecTools: the exchange gives a
\* Graph token, and the call of Graph /me fails.
ToolOboOutcomes ==
  { o \in OboOutcomes : o.settled = "response" /\ o.accessToken = "G1" }
ToolGraphOutcomes == { o \in GraphOutcomes : o.settled = "rejected" }

\* The handler of get_user_info up to its first await.
GetUserInfo(extra, env) == GetUserInfoBegin(ExtractToken(extra), env)

(* ---------------------------------------------------------------------- *)
(* Specifications                                                          *)
(* ---------------------------------------------------------------------- *)
\* The request handlers over all the inputs, within one sweep interval.
Next ==
  \/ \E body \in RegisterBodies : Register(body)
  \/ \E q \in AuthorizeQueries : Authorize(q, MaxAuth)
  \/ \E q \in CallbackQueries : CallbackBegin(q)
  \/ \E r \in pendingCallbacks : CallbackThrows(r)
  \/ \E r \in pendingCallbacks, d \in IdpPayloads : CallbackResumes(r, d)
  \/ \E b \in TokenBodies : TokenAuthorizationCode(b)

Spec == Init /\ [][Next]_vars

\* The S256 flow of the README, the clock and the sweeper.
ReadmeIdpPayloads ==
  { d \in IdpPayloads : Truthy(d.error) \/ d.access_token = "JWT1" }

\* Callbacks and token requests of SpecClock: 0 is the value never issued,
\* 1 .. MaxAuth are the values its authorizations can issue.
ClockCallbackQueries == { q \in CallbackQueries : q.state <= MaxAuth }
ClockTokenBodies == { b \in TokenBodies : b.code <= MaxAuth }

NextClock ==
  \/ Register(ReadmeRegisterBody)
  \/ \E c \in ClientIds : Authorize(S256Query(c), MaxAuth)
  \/ \E q \in ClockCallbackQueries : CallbackBegin(q)
  \/ \E r \in pendingCallbacks : CallbackThrows(r)
  \/ \E r \in pendingCallbacks, d \in ReadmeIdpPayloads : CallbackResumes(r, d)
  \/ \E b \in ClockTokenBodies : TokenAuthorizationCode(b)
  \/ Sweep
  \/ TickClock

SpecClock == Init /\ [][NextClock]_vars

\* Several S256 flows side by side, within one sweep interval.
NextAttempts ==
  \/ Register(ReadmeRegisterBody)
  \/ \E c \in ClientIds : Authorize(S256Query(c), MaxAttempts)
  \/ \E q \in CallbackQueries : CallbackBegin(q)
  \/ \E r \in pendingCallbacks : CallbackThrows(r)
  \/ \E r \in pendingCallbacks, d \in IdpPayloads : CallbackResumes(r, d)
  \/ \E b \in TokenBodies : TokenAuthorizationCode(b)

SpecAttempts == Init /\ [][NextAttempts]_vars

\* Every /authorize query carried through callback and /token, the IdP
\* reachable.
PkceQueries == {q \in AuthorizeQueries : q.client_id = 1}

NextPkce ==
  \/ \E q \in PkceQueries : Authorize(q, MaxAttempts)
  \/ \E q \in {x \in CallbackQueries : ~Truthy(x.error)} : CallbackBegin(q)
  \/ \E r \in pendingCallbacks, d \in ReadmeIdpPayloads : CallbackResumes(r, d)
  \/ \E b \in {x \in TokenBodies : x.code_verifier = "v1"} :
       TokenAuthorizationCode(b)

SpecPkce == Init /\ [][NextPkce]_vars

\* The S256 flow of the README and POST /token with every grant type.
NextGrants ==
  \/ Register(ReadmeRegisterBody)
  \/ \E c \in ClientIds : Authorize(S256Query(c), MaxAuth)
  \/ \E q \in CallbackQueries : CallbackBegin(q)
  \/ \E r \in pendingCallbacks : CallbackThrows(r)
  \/ \E r \in pendingCallbacks, d \in ReadmeIdpPayloads : CallbackResumes(r, d)
  \/ \E b \in GrantBodies : Token(b)
  \/ \E r \in pendingRefreshes, d \in IdpPayloads : TokenRefreshResumes(r, d)
  \/ \E r \in pendingRefreshes : TokenRefreshThrows(r)
  \/ \E b \in RevokeBodies : Revoke(b)

SpecGrants == Init /\ [][NextGrants]_vars

\* Dynamic client registration with every body, among the operations of the
\* gateway.
NextDcr ==
  \/ \E body \in DcrBodies : Register(body)
  \/ \E c \in ClientIds : Authorize(S256Query(c), MaxAuth)
  \/ \E q \in {x \in CallbackQueries : ~Truthy(x.error)} : CallbackBegin(q)
  \/ \E r \in pendingCallbacks : CallbackThrows(r)
  \/ \E r \in pendingCallbacks, d \in ReadmeIdpPayloads : CallbackResumes(r, d)
  \/ \E b \in {x \in GrantBodies : x.grant_type # Undefined} : Token(b)
  \/ \E r \in pendingRefreshes : TokenRefreshThrows(r)
  \/ \E r \in pendingRefreshes, d \in ReadmeIdpPayloads : TokenRefreshResumes(r, d)
  \/ \E b \in {x \in RevokeBodies : x.token_type_hint = Undefined} : Revoke(b)
  \/ Sweep
  \/ TickClock

SpecDcr == Init /\ [][NextDcr]_vars

\* The todo store under the calls of two users.
NextStore ==
  \/ EnsureInitialized
  \/ \E u \in UserIds, f \in TodoFilters : ListTodos(u, f)
  \/ \E u \in UserIds : CreateTodo(u, "t1", "")
  \/ \E op \in {"update", "toggle"}, u \in UserIds, id \in TodoIds,
        upd \in TodoUpdates : ChangeTodoBegin(op, u, id, upd)
  \/ \E r \in pendingStoreOps : ChangeTodoReplace(r)
  \/ \E u \in UserIds, id \in TodoIds : DeleteTodo(u, id)

SpecStore == Init /\ [][NextStore]_vars

\* The last run of the sweeper before the clock of the model stops, and
\* whether an entry stored now, living ttl, is expired by then.
LastSweepTime == ((MaxTicks * Tick) \div SWEEP_INTERVAL) * SWEEP_INTERVAL
ExpiresInTime(ttl) == LastSweepTime - now > ttl

\* The S256 flow of the README with the timer firing whenever it is due and
\* time passing: requests stop storing entries when the clock of the model
\* is about to stop.
NextSweeper ==
  \/ \E c \in ClientIds :
       ExpiresInTime(TRANSACTION_TTL) /\ Authorize(S256Query(c), MaxAuth)
  \/ \E q \in {x \in CallbackQueries : ~Truthy(x.error)} : CallbackBegin(q)
  \/ \E r \in pendingCallbacks : CallbackThrows(r)
  \/ \E r \in pendingCallbacks, d \in ReadmeIdpPayloads :
       ExpiresInTime(CODE_TTL) /\ CallbackResumes(r, d)
  \/ \E b \in {x \in TokenBodies : x.code_verifier = "v1"} :
       TokenAuthorizationCode(b)
  \/ Sweep
  \/ TickClock

SpecSweeper ==
  Init /\ [][NextSweeper]_vars /\ WF_vars(Sweep) /\ WF_vars(TickClock)

\* The handlers that call the IdP, the timer firing whenever it is due and
\* time passing.  The IdP may answer a call or let it fail, and nothing
\* obliges it to: the handlers give fetch no timeout and no signal, and start
\* no timer of their own.
RefreshBodies == {b \in GrantBodies : b.grant_type = "refresh_token"}

NextOutbound ==
  \/ \E c \in ClientIds : Authorize(S256Query(c), MaxAuth)
  \/ \E q \in {x \in CallbackQueries : ~Truthy(x.error)} : CallbackBegin(q)
  \/ \E r \in pendingCallbacks : CallbackThrows(r)
  \/ \E r \in pendingCallbacks, d \in ReadmeIdpPayloads : CallbackResumes(r, d)
  \/ \E b \in RefreshBodies : Token(b)
  \/ \E r \in pendingRefreshes : TokenRefreshThrows(r)
  \/ \E r \in pendingRefreshes, d \in ReadmeIdpPayloads : TokenRefreshResumes(r, d)
  \/ Sweep
  \/ TickClock

SpecOutbound ==
  Init /\ [][NextOutbound]_vars /\ WF_vars(Sweep) /\ WF_vars(TickClock)

\* Calls of the get_user_info tool.
NextObo ==
  \/ \E token \in ExtraTokens, env \in Environments : GetUserInfoBegin(token, env)
  \/ \E r \in pendingUserInfo, outcome \in OboOutcomes : OboSettles(r, outcome)
  \/ \E r \in pendingUserInfo, outcome \in GraphOutcomes : GraphSettles(r, outcome)

SpecObo == Init /\ [][NextObo]_vars

\* The tools called with and without an identity.
NextTools ==
  \/ \E tool \in TodoTools, extra \in TodoExtras, id \in ToolTodoIds :
       TodoToolCall(tool, extra, id)
  \/ \E r \in pendingStoreOps : ChangeTodoReplace(r)
  \/ \E extra \in UserInfoExtras : GetUserInfo(extra, AllCredentials)
  \/ \E r \in pendingUserInfo, outcome \in ToolOboOutcomes : OboSettles(r, outcome)
  \/ \E r \in pendingUserInfo, outcome \in ToolGraphOutcomes :
       GraphSettles(r, outcome)

SpecTools == Init /\ [][NextTools]_vars

\* The resource server: requests to /mcp.
\* The sessions of /mcp: requests, the awaits of their handlers resolving or
\* rejecting, and transports closing.
NextSessions ==
  \/ \E req \in SessionRequests, keys \in JwksOutcomes :
       McpSessionRequest(req, keys)
  \/ \E p \in pendingPosts : McpPostConnected(p)
  \/ \E p \in pendingPosts : McpPostResumes(p)
  \/ \E p \in pendingPosts : McpPostThrows(p)
  \/ \E n \in DOMAIN transports : TransportCloses(n)
  \/ \E req \in SessionRequests : McpDelete(req)
  \/ \E d \in pendingDeletes : McpDeleteResumes(d)

SpecSessions == Init /\ [][NextSessions]_vars

NextMcp ==
  \/ \E req \in McpRequests : McpRequest(req)
  \/ \E req \in pendingValidations, keys \in JwksOutcomes :
       McpValidationSettles(req, keys)

SpecMcp == Init /\ [][NextMcp]_vars

(* ---------------------------------------------------------------------- *)
(* Claims                                                                  *)
(* ---------------------------------------------------------------------- *)
\* A token answer that carries no tokens.
NoTokens(resp) == "body" \notin DOMAIN resp

\* The 400 invalid_grant answer without tokens.
IsInvalidGrant(resp) ==
  resp.status = 400 /\ resp.error = "invalid_grant" /\ NoTokens(resp)

\* C1: a proxy code is found by at most one /token request; the record is
\* gone after that first read whatever the PKCE check then says; every later
\* request with that code is answered 400 invalid_grant without tokens.
C1_SingleUseCode ==
  /\ \A p \in DOMAIN codeOrigin : Count(codeReads, p) <= 1
  /\ \A p \in DOMAIN codeReads : ~MapHas(authCodes, p)
  /\ \A b \in TokenBodies :
       b.code \in DOMAIN codeReads => IsInvalidGrant(TokenResponse(authCodes, b))

\* A code was read by a request that then failed PKCE, and the record is gone.
C1_Witness ==
  /\ lastResponse.ep = "token" /\ lastResponse.status = 400
  /\ lastResponse.error_description = "PKCE verification failed"
  /\ Count(codeReads, lastResponse.req.code) = 1
  /\ ~MapHas(authCodes, lastResponse.req.code)

\* C2: of the callbacks that carry one pending state, one finds the
\* transaction and goes on to the IdP; while it is suspended there, and ever
\* after, another callback with that state is answered 400 invalid_state; no
\* state starts two IdP exchanges or yields two proxy codes.
C2_OneCallbackPerState ==
  /\ \A s \in DOMAIN exchanges : exchanges[s] <= 1
  /\ \A s \in States :
       Cardinality({p \in DOMAIN codeOrigin : codeOrigin[p].state = s}) <= 1
  /\ \A q \in CallbackQueries :
       /\ (~Truthy(q.error) /\ MapHas(authTransactions, q.state))
            => CallbackBeginResponse(q).error = "suspended"
       /\ (~Truthy(q.error) /\ q.state \in DOMAIN exchanges)
            => /\ CallbackBeginResponse(q).status = 400
               /\ CallbackBeginResponse(q).error = "invalid_state"

\* A callback is suspended at the IdP exchange and a second callback with the
\* same state has been answered invalid_state.
C2_Witness ==
  /\ lastResponse.ep = "callback" /\ lastResponse.error = "invalid_state"
  /\ \E r \in pendingCallbacks :
       r.state = lastResponse.req /\ Count(exchanges, r.state) = 1

\* A step of the /auth/callback handler for query q that answers at once.
CallbackAnswers(q) == CallbackBegin(q) /\ CallbackBeginResponse(q).status # 0

\* What every step of the /auth/callback handler up to its await does: it
\* answers, or it counts an exchange.
CallbackArrives ==
  \/ exchanges' # exchanges
  \/ lastResponse' # lastResponse /\ lastResponse'.ep = "callback"

\* C3: a callback without an error parameter whose state /authorize never
\* stored, or whose transaction an earlier callback consumed, is answered
\* 400 invalid_state, starts no IdP exchange and creates no code record.
C3_UnknownStateRejected ==
  [][ CallbackArrives =>
      \A q \in CallbackQueries :
        ( /\ ~Truthy(q.error)
          /\ (q.state \notin 1 .. (nextState - 1) \/ q.state \in DOMAIN exchanges)
          /\ CallbackBegin(q) )
        => /\ lastResponse'.status = 400
           /\ lastResponse'.error = "invalid_state"
           /\ UNCHANGED << authCodes, pendingCallbacks, exchanges, codeOrigin >>
    ]_vars

\* A callback consumed a state and has finished, and a later callback with
\* that state has been answered invalid_state.
C3_Witness ==
  /\ lastResponse.ep = "callback" /\ lastResponse.error = "invalid_state"
  /\ Count(exchanges, lastResponse.req) = 1
  /\ \A r \in pendingCallbacks : r.state # lastResponse.req

C5_ChallengeNeedsVerifier ==
  \A b \in TokenBodies :
    (MapHas(authCodes, b.code) /\ Truthy(authCodes[b.code].clientCodeChallenge)
       /\ ~Truthy(b.code_verifier))
    => IsInvalidGrant(TokenResponse(authCodes, b))

\* C6: a callback whose transaction is older than 10 minutes is answered
\* invalid_state and a token request whose record is older than 5 minutes
\* is answered invalid_grant, swept or not.
C6_ExpiredRejected ==
  /\ \A q \in CallbackQueries :
       ( /\ ~Truthy(q.error) /\ MapHas(authTransactions, q.state)
         /\ now - authTransactions[q.state].createdAt > TRANSACTION_TTL )
       => CallbackBeginResponse(q).error = "invalid_state"
  /\ \A b \in TokenBodies :
       ( /\ MapHas(authCodes, b.code)
         /\ now - authCodes[b.code].createdAt > CODE_TTL )
       => IsInvalidGrant(TokenResponse(authCodes, b))

\* uri is one of the redirect_uris registered for clientId.
RegisteredRedirect(clientId, uri) ==
  /\ MapHas(clientRegistrations, clientId)
  /\ clientRegistrations[clientId].redirect_uris.type = "array"
  /\ \E i \in DOMAIN clientRegistrations[clientId].redirect_uris.items :
       clientRegistrations[clientId].redirect_uris.items[i] = uri

\* C7: every stored transaction has a redirect_uri registered for its
\* client_id, and every 302 of the callback goes to such a URI with code and,
\* when the client sent one, state as the only parameters added.
C7_RedirectRegistered ==
  /\ \A s \in DOMAIN authTransactions :
       RegisteredRedirect(authTransactions[s].clientId,
                          authTransactions[s].clientRedirectUri)
  /\ \A r \in pendingCallbacks, d \in IdpSuccessPayloads :
       LET resp == CallbackResponse(r, d, nextCode) IN
       resp.status = 302 =>
         /\ RegisteredRedirect(r.transaction.clientId, resp.location.base)
         /\ resp.location.code = nextCode
         /\ resp.location.state = r.transaction.clientState

\* A step of the /auth/callback handler.
CallbackStep ==
  \/ \E q \in CallbackQueries : CallbackAnswers(q)
  \/ \E r \in pendingCallbacks : CallbackThrows(r)
  \/ \E r \in pendingCallbacks, d \in IdpPayloads : CallbackResumes(r, d)

\* C8: a callback that fails creates no code record and sends no redirect;
\* an IdP error answer gives 400 with the IdP payload, a thrown exchange
\* gives 500 server_error.
C8_FailedCallbackIssuesNothing ==
  [][ /\ (CallbackStep /\ lastResponse'.status # 302)
        => /\ authCodes' = authCodes
           /\ lastResponse'.status \in {400, 500}
      /\ \A r \in pendingCallbacks :
           /\ CallbackThrows(r) =>
                (lastResponse'.status = 500 /\ lastResponse'.error = "server_error")
           /\ CallbackResumes(r, IdpErrorPayload) =>
                (lastResponse'.status = 400 /\ lastResponse'.body = IdpErrorPayload)
    ]_vars

\* C9: after any callback whose state matches a pending transaction, the
\* error-parameter case included, the transaction is no longer stored.
C9_AnyCallbackConsumes ==
  [][ \A q \in CallbackQueries :
        (MapHas(authTransactions, q.state) /\ CallbackBegin(q))
        => ~MapHas(authTransactions', q.state) ]_vars

\* C9 as amended: a callback without an error parameter whose state matches a
\* pending transaction removes it before the IdP exchange, so it is gone
\* whether the exchange then succeeds or fails, and a state that was consumed
\* is never stored again; a callback with an error parameter leaves the
\* stores as they are.
C9_CallbackConsumes ==
  /\ [][ \A q \in CallbackQueries :
           (MapHas(authTransactions, q.state) /\ CallbackBegin(q))
           => IF Truthy(q.error)
              THEN UNCHANGED stores
              ELSE ~MapHas(authTransactions', q.state) ]_vars
  /\ [](\A s \in DOMAIN exchanges : ~MapHas(authTransactions, s))

\* A callback consumed its transaction and then failed at the IdP exchange.
C9_Witness ==
  /\ lastResponse.ep = "callback" /\ lastResponse.status = 500
  /\ Count(exchanges, lastResponse.req) = 1
  /\ ~MapHas(authTransactions, lastResponse.req) /\ authCodes = << >>

\* The token fields of an IdP answer as /token has to return them.
TokensOf(tokenData) ==
  [access_token |-> tokenData.access_token,
   token_type |-> "Bearer",
   expires_in |-> tokenData.expires_in,
   refresh_token |-> tokenData.refresh_token,
   scope |-> tokenData.scope]

\* C10: a successful /token for proxy code p returns exactly the tokens the
\* IdP gave to the callback that issued p, with token_type Bearer.
C10_TokensOfOwnAttempt ==
  /\ \A b \in TokenBodies :
       LET resp == TokenResponse(authCodes, b) IN
       resp.status = 200 => resp.body = TokensOf(codeOrigin[b.code].tokenData)
  /\ (lastResponse.ep = "token" /\ lastResponse.status = 200)
       => lastResponse.body = TokensOf(codeOrigin[lastResponse.req.code].tokenData)

\* Two attempts got different tokens from the IdP; the code of one of them
\* has been redeemed and the answer carried that attempt's tokens.
C10_Witness ==
  /\ DOMAIN codeOrigin = {1, 2}
  /\ codeOrigin[1].state # codeOrigin[2].state
  /\ codeOrigin[1].tokenData # codeOrigin[2].tokenData
  /\ lastResponse.ep = "token" /\ lastResponse.status = 200
  /\ lastResponse.body = TokensOf(codeOrigin[lastResponse.req.code].tokenData)

\* C11: the verifier a callback sends to the IdP is the one whose S256
\* challenge the /authorize request that created its state sent to the IdP,
\* and is no value the client supplied; the challenge stored with the
\* resulting code, the one /token checks, is the client's code_challenge of
\* that same /authorize request, and the code record holds no proxy verifier.
C11_PkceLayersApart ==
  /\ \A r \in pendingCallbacks :
       /\ issued[r.state].idpMethod = "S256"
       /\ Sha256Base64Url(r.sent.code_verifier) = issued[r.state].idpChallenge
       /\ r.sent.code_verifier = ProxyCodeVerifier(r.state)
       /\ r.sent.code_verifier \notin Verifiers
       /\ r.sent.code_verifier # issued[r.state].code_challenge
  /\ \A p \in DOMAIN authCodes :
       LET o == issued[codeOrigin[p].state] IN
       /\ authCodes[p].clientCodeChallenge = OrElse(o.code_challenge, "")
       /\ authCodes[p].clientCodeChallengeMethod =
            OrElse(o.code_challenge_method, "S256")
       /\ authCodes[p].clientCodeChallenge # o.idpChallenge
       /\ "proxyCodeVerifier" \notin DOMAIN authCodes[p]

\* A callback of a flow whose client sent a plain challenge is suspended at
\* the IdP exchange, the proxy verifier sent.
C11_Witness ==
  \E r \in pendingCallbacks :
    /\ issued[r.state].code_challenge = "v1"
    /\ issued[r.state].code_challenge_method = "plain"
    /\ r.sent.code_verifier = ProxyCodeVerifier(r.state)

\* C12: every 302 of /authorize carries code_challenge_method S256, a state
\* never issued before and the S256 challenge of the verifier stored in the
\* transaction under that state, a verifier no earlier transaction had; the
\* client's challenge and method go into the transaction and not into the
\* redirect.
C12_IdpRequestIsProxyS256 ==
  [][ \A q \in PkceQueries :
        (Authorize(q, MaxAttempts) /\ lastResponse'.status = 302)
        => LET location == lastResponse'.location
               transaction == authTransactions'[location.state]
           IN /\ location.code_challenge_method = "S256"
              /\ location.state = nextState
              /\ ~MapHas(issued, location.state)
              /\ location.code_challenge =
                   Sha256Base64Url(transaction.proxyCodeVerifier)
              /\ \A s \in DOMAIN issued :
                   issued[s].idpChallenge # location.code_challenge
              /\ transaction.clientCodeChallenge = OrElse(q.code_challenge, "")
              /\ transaction.clientCodeChallengeMethod =
                   OrElse(q.code_challenge_method, "S256")
              /\ location.code_challenge # q.code_challenge
              /\ DOMAIN location =
                   {"client_id", "response_type", "redirect_uri", "scope",
                    "state", "code_challenge", "code_challenge_method"}
    ]_vars

\* /authorize has redirected to the IdP, for the second time, a client that
\* sent a plain challenge.
C12_Witness ==
  /\ lastResponse.ep = "authorize" /\ lastResponse.status = 302
  /\ lastResponse.location.state = 2
  /\ MapHas(authTransactions, lastResponse.location.state)
  /\ authTransactions[lastResponse.location.state].clientCodeChallengeMethod = "plain"
  /\ lastResponse.location.code_challenge_method = "S256"

\* The header the 401 challenge has to carry.
ChallengeHeader ==
  <<"WWW-Authenticate",
    "Bearer resource_metadata=\"BASE/.well-known/oauth-protected-resource\"">>

\* The requests the strict validator guards.
StrictRequests == {req \in McpRequests : req.method = "POST"}
\* The answer recorded last is one to a request of the strict validator.
StrictAnswered == lastResponse.ep = "mcp" /\ lastResponse.req.method = "POST"

\* C13: a request to the strict validator without an Authorization header, or
\* with one that does not start with "Bearer ", is answered 401 with the
\* WWW-Authenticate challenge and a body whose error is unauthorized, and the
\* handler does not run.
C13_NoBearerChallenged ==
  /\ \A req \in StrictRequests :
       req.authorization.scheme # "Bearer "
       => LET outcome == ValidateJwtBegin(req) IN
          /\ outcome.kind = "response" /\ outcome.status = 401
          /\ ChallengeHeader \in outcome.headers
          /\ outcome.body.error = "unauthorized"
  /\ (StrictAnswered /\ lastResponse.req.authorization.scheme # "Bearer ")
       => /\ lastResponse.status = 401
          /\ ChallengeHeader \in lastResponse.headers
          /\ lastResponse.body.error = "unauthorized"
          /\ ~lastResponse.handled

\* A POST /mcp whose header carries a good token under the scheme "bearer "
\* has been answered 401.
C13_Witness ==
  /\ StrictAnswered /\ lastResponse.req.authorization.scheme = "bearer "
  /\ lastResponse.status = 401 /\ ~lastResponse.handled

\* C14: whenever the POST /mcp handler has run, req.auth was attached, it
\* holds the Bearer token of the request, and that token resolves to a
\* published key and passes jwt.verify; on an existing session as well.
C14_PostHandlerNeedsIdentity ==
  (StrictAnswered /\ lastResponse.handled)
  => /\ lastResponse.req.authorization.scheme = "Bearer "
     /\ "auth" \in DOMAIN lastResponse
     /\ lastResponse.auth.token = lastResponse.req.authorization.token
     /\ lastResponse.auth.token.fmt = "jwt"
     /\ LET token == lastResponse.auth.token IN
        /\ GetSigningKey(token.header, JwksKids) # Rejected
        /\ JwtVerify(token, GetSigningKey(token.header, JwksKids), ClockTimestamp)

\* A call on an existing session was handed to the session's transport, with
\* the identity of its token.
C14_Witness ==
  /\ StrictAnswered /\ lastResponse.handled
  /\ lastResponse.req.sessionId = SessionId(1)
  /\ lastResponse.req.rpc = "tools/call"
  /\ lastResponse.status = 200 /\ lastResponse.body.transport = 1
  /\ lastResponse.auth.claims.oid = "u1"

\* The conditions C15 names, for a token that is a JWT, at clock t.
NamedChecksPass(token, t) ==
  /\ Get(token.header, "kid") \in JwksKids
  /\ token.header.alg = "RS256"
  /\ token.signedBy = Get(token.header, "kid")
  /\ Get(token.payload, "iss") = Issuer
  /\ Get(token.payload, "aud") = Audience
  /\ "exp" \in DOMAIN token.payload /\ token.payload.exp > t

\* C15: with the JWKS reachable, validation attaches an identity exactly to
\* the JWTs with a known kid, alg RS256, a signature that verifies, the
\* configured iss and aud and an exp in the future.
C15_IdentityIffChecksPass ==
  \A req \in StrictRequests :
    (req.authorization.scheme = "Bearer " /\ req.authorization.token.fmt = "jwt")
    => ( "auth" \in DOMAIN ValidateJwtSettled(req, JwksKids)
         <=> NamedChecksPass(req.authorization.token, ClockTimestamp) )

\* C16: every 401 of the strict validator carries the WWW-Authenticate
\* challenge.
C16_Every401Challenges ==
  (StrictAnswered /\ lastResponse.status = 401)
  => ChallengeHeader \in lastResponse.headers

\* C17: an attached identity has a non-empty claims.oid.
C17_IdentityHasOid ==
  (lastResponse.ep = "mcp" /\ "auth" \in DOMAIN lastResponse)
  => Truthy(lastResponse.auth.claims.oid)

\* The requests to /mcp under validation and the one answered last.
RequestsSeen ==
  pendingValidations \cup
    (IF lastResponse.ep = "mcp" THEN {lastResponse.req} ELSE {})

\* C18: the permissive validator calls the handler without identity when there
\* is no Bearer token; for a Bearer token it is suspended exactly when the
\* strict one is, attaches exactly the identity the strict one attaches, and
\* calls the handler without identity where the strict one answers 401; it
\* never answers itself.
C18_PermissiveMatchesStrict ==
  /\ \A req \in RequestsSeen :
       LET strict == ValidateJwtBegin(req)
           permissive == ValidateJwtOptionalBegin(req)
       IN /\ req.authorization.scheme # "Bearer " => permissive = NextWithoutAuth
          /\ strict.kind = "suspended" <=> permissive.kind = "suspended"
          /\ strict.kind = "response" =>
               (strict.status = 401 /\ permissive = NextWithoutAuth)
          /\ strict.kind = "suspended" =>
               \A keys \in JwksOutcomes :
                 LET s == ValidateJwtSettled(req, keys)
                     o == ValidateJwtOptionalSettled(req, keys)
                 IN /\ o.kind = "next"
                    /\ "auth" \in DOMAIN s <=> "auth" \in DOMAIN o
                    /\ "auth" \in DOMAIN s => o.auth = s.auth
                    /\ s.kind = "response" => (s.status = 401 /\ o = NextWithoutAuth)
  /\ (lastResponse.ep = "mcp" /\ lastResponse.req.method = "GET")
       => /\ lastResponse.handled
          /\ "auth" \in DOMAIN lastResponse =>
               /\ lastResponse.req.authorization.scheme = "Bearer "
               /\ \E keys \in JwksOutcomes :
                    ValidateJwtSettled(lastResponse.req, keys) =
                      NextWithAuth(lastResponse.auth)

\* The GET handler ran without identity for a Bearer token signed by another
\* key, and the strict validator answers that token 401.
C18_Witness ==
  /\ lastResponse.ep = "mcp" /\ lastResponse.req.method = "GET"
  /\ lastResponse.handled /\ "auth" \notin DOMAIN lastResponse
  /\ lastResponse.req.authorization.scheme = "Bearer "
  /\ lastResponse.req.authorization.token.fmt = "jwt"
  /\ lastResponse.req.authorization.token.signedBy = "attacker"
  /\ ValidateJwtSettled(lastResponse.req, JwksKids).kind = "response"

\* The answer of the strict validator to a Bearer token.
StrictOutcome(req, keys) ==
  IF ValidateJwtBegin(req).kind = "suspended"
  THEN ValidateJwtSettled(req, keys)
  ELSE ValidateJwtBegin(req)

\* C19: any two Bearer tokens the strict validator refuses get the same status
\* and the same body.
C19_RefusalsAlike ==
  \A r1, r2 \in {req \in StrictRequests : req.authorization.scheme = "Bearer "} :
    \A k1, k2 \in JwksOutcomes :
      LET o1 == StrictOutcome(r1, k1)
          o2 == StrictOutcome(r2, k2)
      IN (o1.kind = "response" /\ o2.kind = "response")
         => (o1.status = o2.status /\ o1.body = o2.body)

\* C20: a token request whose grant_type the metadata does not advertise, or
\* that has none, is answered 400 unsupported_grant_type and changes nothing
\* stored; a request whose grant_type is advertised is never answered
\* unsupported_grant_type, at once or after the IdP call.
C20_AdvertisedGrantsHonoured ==
  /\ [][ \A b \in GrantBodies :
           Token(b)
           => IF b.grant_type \in AuthorizationServerMetadata.grant_types_supported
              THEN lastResponse' # lastResponse
                     => lastResponse'.error # "unsupported_grant_type"
              ELSE /\ lastResponse'.status = 400
                   /\ lastResponse'.error = "unsupported_grant_type"
                   /\ NoTokens(lastResponse')
                   /\ UNCHANGED << stores, pendingCallbacks, pendingRefreshes,
                                   fresh >>
       ]_vars
  /\ []( (lastResponse.ep = "token" /\ lastResponse.error = "unsupported_grant_type")
          => /\ lastResponse.req.grant_type
                  \notin AuthorizationServerMetadata.grant_types_supported
             /\ lastResponse.status = 400 )
  /\ []( \A r \in pendingRefreshes : r.req.grant_type = "refresh_token" )

\* A request without grant_type has been refused while a code record is
\* stored, and the record is still there.
C20_Witness ==
  /\ lastResponse.ep = "token" /\ lastResponse.error = "unsupported_grant_type"
  /\ lastResponse.req.grant_type = Undefined
  /\ MapHas(authCodes, lastResponse.req.code)

\* C21: GET /authorize with a response_type other than "code", or with none,
\* is answered 400 unsupported_response_type, sends no redirect and stores no
\* transaction; with response_type "code" it is answered 302 and stores
\* exactly one new transaction, under a proxy_state no authorization was
\* given before, leaving every other transaction as it was.
C21_AuthorizeNeedsCode ==
  [][ \A q \in PkceQueries :
        Authorize(q, MaxAttempts)
        => IF q.response_type # "code"
           THEN /\ lastResponse'.status = 400
                /\ lastResponse'.error = "unsupported_response_type"
                /\ "location" \notin DOMAIN lastResponse'
                /\ UNCHANGED << stores, issued, nextState >>
           ELSE /\ lastResponse'.status = 302
                /\ \E s \in States :
                     /\ s \notin DOMAIN issued
                     /\ s \notin DOMAIN authTransactions
                     /\ lastResponse'.location.state = s
                     /\ DOMAIN authTransactions' = DOMAIN authTransactions \cup {s}
                     /\ authTransactions'[s].clientId = q.client_id
                     /\ authTransactions'[s].clientRedirectUri = q.redirect_uri
                /\ \A s \in DOMAIN authTransactions :
                     authTransactions'[s] = authTransactions[s]
                /\ UNCHANGED << clientRegistrations, authCodes >>
    ]_vars

\* A request whose response_type is not "code" has been refused while the transaction of
\* an earlier authorization is stored.
C21_Witness ==
  /\ lastResponse.ep = "authorize" /\ lastResponse.status = 400
  /\ authTransactions # << >>
  /\ \E s \in DOMAIN issued : MapHas(authTransactions, s)

\* C22: a refresh_token grant whose refresh_token is missing or empty is
\* answered 400 invalid_request at once: no call to the IdP is started and
\* the stores are left as they were.
C22_RefreshNeedsToken ==
  [][ \A b \in GrantBodies :
        (Token(b) /\ b.grant_type = "refresh_token" /\ ~Truthy(b.refresh_token))
        => /\ lastResponse'.ep = "token"
           /\ lastResponse'.status = 400
           /\ lastResponse'.error = "invalid_request"
           /\ NoTokens(lastResponse')
           /\ UNCHANGED << stores, pendingRefreshes, pendingCallbacks, history >>
    ]_vars

\* A refresh with an empty refresh_token has been refused while a code
\* record is stored.
C22_Witness ==
  /\ lastResponse.ep = "token" /\ lastResponse.error = "invalid_request"
  /\ lastResponse.req.grant_type = "refresh_token"
  /\ lastResponse.req.refresh_token = ""
  /\ authCodes # << >>

\* The tokens of a 200 answer to a refresh are the IdP's.
RefreshedTokens(tokenData) ==
  [access_token |-> tokenData.access_token, token_type |-> "Bearer",
   expires_in |-> tokenData.expires_in, refresh_token |-> tokenData.refresh_token,
   scope |-> tokenData.scope]

\* C23: a refresh grant with a refresh_token sends that token to the IdP with
\* the gateway's own client_id and client_secret; an IdP success is answered
\* 200 with the IdP's access_token, refresh_token, expires_in and scope as
\* they came, an IdP error 400 with the IdP's payload as it came, a failed
\* call 500 server_error; the transaction and code stores are left alone.
C23_RefreshRelaysIdp ==
  /\ []( \A r \in pendingRefreshes :
           /\ Truthy(r.req.refresh_token)
           /\ r.sent.refresh_token = r.req.refresh_token
           /\ r.sent.grant_type = "refresh_token"
           /\ r.sent.client_id = "ENTRA_CLIENT_ID"
           /\ r.sent.client_secret = "ENTRA_CLIENT_SECRET" )
  /\ [][ /\ \A b \in GrantBodies :
             (Token(b) /\ b.grant_type = "refresh_token" /\ Truthy(b.refresh_token))
             => /\ \E r \in pendingRefreshes' \ pendingRefreshes : r.req = b
                /\ UNCHANGED << stores, lastResponse >>
         /\ \A r \in pendingRefreshes :
             /\ \A d \in IdpPayloads :
                  TokenRefreshResumes(r, d)
                  => /\ lastResponse'.req = r.req
                     /\ IF Truthy(d.error)
                        THEN /\ lastResponse'.status = 400
                             /\ lastResponse'.body = d
                        ELSE /\ lastResponse'.status = 200
                             /\ lastResponse'.body = RefreshedTokens(d)
                     /\ UNCHANGED << stores, history >>
             /\ TokenRefreshThrows(r)
                  => /\ lastResponse'.status = 500
                     /\ lastResponse'.error = "server_error"
                     /\ NoTokens(lastResponse')
                     /\ UNCHANGED << stores, history >>
       ]_vars

\* A refresh has been answered 200 with the IdP's answer, which carries no
\* new refresh token, while a code record is stored.
C23_Witness ==
  /\ lastResponse.ep = "token" /\ lastResponse.status = 200
  /\ lastResponse.req.grant_type = "refresh_token"
  /\ lastResponse.req.refresh_token = "R1"
  /\ lastResponse.body.access_token = "JWT2"
  /\ lastResponse.body.refresh_token = Undefined
  /\ authCodes # << >>

\* C24: POST /revoke is answered 200 with a body that has no content, the
\* empty JSON object, whatever its request carries, and leaves the
\* registrations, the transactions and the code records as they were.
C24_RevokeIsNoOp ==
  /\ [][ \A b \in RevokeBodies :
           Revoke(b)
           => /\ lastResponse'.ep = "revoke"
              /\ lastResponse'.status = 200
              /\ lastResponse'.json = {}
              /\ UNCHANGED << stores, pendingCallbacks, pendingRefreshes >>
       ]_vars
  /\ []( lastResponse.ep = "revoke"
          => lastResponse.status = 200 /\ lastResponse.json = {} )

\* The refresh token of a stored code record has been presented for
\* revocation, and the record is still stored.
C24_Witness ==
  /\ lastResponse.ep = "revoke" /\ lastResponse.status = 200
  /\ lastResponse.req.token = "R1"
  /\ \E c \in DOMAIN authCodes : authCodes[c].refreshToken = "R1"

\* C25: every POST /register is answered 201 with a client_id no registration
\* had before and the registered fields (redirect_uris as sent, the defaults
\* for the optional fields that are missing), and stores exactly one new
\* registration; no operation changes or removes a registration.
C25_RegisterMintsAndKeeps ==
  [][ /\ \A body \in DcrBodies :
           Register(body)
           => /\ lastResponse'.status = 201
              /\ lastResponse'.client_id \notin DOMAIN clientRegistrations
              /\ DOMAIN clientRegistrations' =
                   DOMAIN clientRegistrations \cup {lastResponse'.client_id}
              /\ body.redirect_uris.type # "undefined"
                   => lastResponse'.redirect_uris = body.redirect_uris
              /\ lastResponse'.client_name = OrElse(body.client_name, "MCP Client")
              /\ lastResponse'.token_endpoint_auth_method =
                   OrElse(body.token_endpoint_auth_method, "none")
      /\ \A c \in DOMAIN clientRegistrations :
           /\ c \in DOMAIN clientRegistrations'
           /\ clientRegistrations'[c] = clientRegistrations[c]
    ]_vars

\* todoId names a todo that listTodos shows to a user other than b.
OwnedByOther(b, todoId) ==
  \E a \in UserIds \ {b} :
    \E i \in DOMAIN ListTodosOf(a, "all") : ListTodosOf(a, "all")[i].id = todoId

\* What listTodos(userId) returns after the step.
ListTodosAfter(userId) ==
  ListIn(container', inMemoryStore', cosmosItems', userId, "all")

\* C26: the todos listed for a user carry that user's id; a step in which a
\* create, update, toggle, delete or list under user id A returns leaves
\* what is listed for every other user id as it was; an update, toggle or
\* delete under B that names a todo of A reports not-found, and a call that
\* reports not-found changes no listing.
C26_PerUserIsolation ==
  /\ []( \A u \in UserIds, f \in TodoFilters :
           \A i \in DOMAIN ListTodosOf(u, f) : ListTodosOf(u, f)[i].user_id = u )
  /\ [][ "userId" \in DOMAIN storeResult'
           => \A b \in UserIds \ {storeResult'.userId} :
                ListTodosAfter(b) = ListTodosOf(b, "all")
       ]_vars
  /\ []( ( /\ storeResult.op \in {"update", "toggle", "delete"}
           /\ OwnedByOther(storeResult.userId, storeResult.todoId) )
         => storeResult.outcome \in {"null", "false"} )
  /\ [][ ( /\ storeResult' # storeResult
           /\ storeResult'.outcome \in {"null", "false"} )
         => /\ \A u \in UserIds : ListTodosAfter(u) = ListTodosOf(u, "all")
            /\ UNCHANGED << cosmosItems, pendingStoreOps >>
       ]_vars

\* With a Cosmos container, user B asked to delete a todo of user A, was told
\* it does not exist, and A still has it; B has a todo too.
C26_Witness ==
  /\ container # Undefined
  /\ storeResult.op = "delete" /\ storeResult.outcome = "false"
  /\ storeResult.userId = "oidB"
  /\ \E i \in DOMAIN ListTodosOf("oidA", "all") :
       ListTodosOf("oidA", "all")[i].id = storeResult.todoId
  /\ ListTodosOf("oidB", "all") # << >>

\* The failures of a get_user_info call that has a token, each with the
\* message of its error.
OboFailed(outcome) ==
  outcome.settled # "response" \/ ~Truthy(outcome.accessToken)
OboFailureMessage(outcome) ==
  IF outcome.settled = "rejected" THEN outcome.message ELSE NoAccessTokenMessage
DownstreamFailed(outcome) ==
  outcome.settled = "rejected" \/ ~outcome.ok
DownstreamFailureMessage(outcome) ==
  IF outcome.settled = "rejected" THEN outcome.message
  ELSE "Graph API /me failed (403): Forbidden"

\* text is the report of the failure whose message is message.
ReportsFailure(result, message) ==
  /\ result.kind = "tool_result"
  /\ result.isError
  /\ result.text = "Failed to get user info: " \o message

\* C27: a get_user_info call whose OBO exchange or downstream call fails
\* (missing gateway credentials, IdP rejection, no access token, downstream
\* non-2xx or unreachable) ends with a tool result that has isError set and
\* whose message carries the message of the failure; no call ends with an
\* exception, and none answers through the proxy or the token middleware.
C27_OboFailureIsToolResult ==
  /\ []( toolResult.kind \in {"none", "tool_result"} )
  /\ [][ /\ \A token \in ExtraTokens \ {Undefined}, env \in Environments :
             (GetUserInfoBegin(token, env) /\ GetCca(env).threw)
             => ReportsFailure(toolResult', MissingCredentialsMessage)
         /\ \A r \in pendingUserInfo :
             /\ \A outcome \in OboOutcomes :
                  (OboSettles(r, outcome) /\ OboFailed(outcome))
                  => /\ ReportsFailure(toolResult', OboFailureMessage(outcome))
                     /\ r \notin pendingUserInfo'
             /\ \A outcome \in GraphOutcomes :
                  (GraphSettles(r, outcome) /\ DownstreamFailed(outcome))
                  => /\ ReportsFailure(toolResult', DownstreamFailureMessage(outcome))
                     /\ r \notin pendingUserInfo'
         /\ toolResult' # toolResult => UNCHANGED lastResponse
       ]_vars

\* The downstream call of a get_user_info call was answered 403 and the tool
\* result reports it.
C27_Witness ==
  /\ toolResult.kind = "tool_result" /\ toolResult.isError
  /\ toolResult.text = "Failed to get user info: Graph API /me failed (403): Forbidden"
  /\ ccaInstance # 0

\* C28: at most one confidential-client instance is ever constructed, and
\* once one is memoized every call uses it and nothing replaces it; a call
\* that finds no instance and a credential missing ends with the
\* configuration error, constructs nothing and leaves the memo empty.
C28_OneMemoizedClient ==
  /\ []( /\ ccaCreated <= 1
         /\ ccaInstance = 0 <=> ccaCreated = 0
         /\ \A r \in pendingUserInfo : r.cca # 0 /\ r.cca = ccaInstance )
  /\ [][ /\ ccaInstance # 0
             => ccaInstance' = ccaInstance /\ ccaCreated' = ccaCreated
         /\ \A token \in ExtraTokens \ {Undefined}, env \in Environments :
             ( /\ GetUserInfoBegin(token, env)
               /\ ccaInstance = 0
               /\ \E v \in DOMAIN env : ~Truthy(env[v]) )
             => /\ ReportsFailure(toolResult', MissingCredentialsMessage)
                /\ ccaInstance' = 0
                /\ ccaCreated' = 0
                /\ UNCHANGED pendingUserInfo
       ]_vars

\* A call ended with the configuration error and a later call, made with
\* the credentials present, constructed the instance and is under way.
C28_Witness ==
  /\ toolResult.kind = "tool_result"
  /\ toolResult.text = "Failed to get user info: " \o MissingCredentialsMessage
  /\ ccaInstance # 0
  /\ \E r \in pendingUserInfo : r.cca = ccaInstance

\* C29: with the sweeper running whenever it is due, every transaction and
\* every code record that is stored is removed in the end, consumed by a
\* request or not.
C29_EveryEntrySwept ==
  /\ \A s \in States :
       MapHas(authTransactions, s) ~> ~MapHas(authTransactions, s)
  /\ \A c \in Codes : MapHas(authCodes, c) ~> ~MapHas(authCodes, c)

\* A transaction was stored, no request came after its /authorize, and it is
\* gone.
C29_Witness ==
  /\ lastResponse.ep = "authorize" /\ lastResponse.status = 302
  /\ MapHas(issued, lastResponse.location.state)
  /\ ~MapHas(authTransactions, lastResponse.location.state)
  /\ exchanges = << >>

\* C30: every callback that is waiting for the IdP after its state lookup
\* and every refresh grant that is waiting for the IdP is answered in the
\* end, whether the IdP answers or not.
C30_OutboundCallsEnd ==
  /\ \A s \in States :
       (\E r \in pendingCallbacks : r.state = s)
         ~> ~(\E r \in pendingCallbacks : r.state = s)
  /\ \A b \in RefreshBodies :
       (\E r \in pendingRefreshes : r.req = b)
         ~> ~(\E r \in pendingRefreshes : r.req = b)

\* C32: POST /token returns tokens for a proxy code only to a request that
\* presents a verifier whose SHA-256 hash is the non-empty S256 challenge
\* /authorize stored for that attempt.
C32_PkceS256Everywhere ==
  (lastResponse.ep = "token" /\ lastResponse.status = 200)
    => /\ Truthy(lastResponse.stored.clientCodeChallenge)
       /\ lastResponse.stored.clientCodeChallengeMethod = "S256"
       /\ Truthy(lastResponse.req.code_verifier)
       /\ Sha256Base64Url(lastResponse.req.code_verifier)
            = lastResponse.stored.clientCodeChallenge

\* C33: every stored AuthTransaction has a client_id that is a key of the
\* registration store.
C33_TransactionsOfRegisteredClients ==
  \A s \in DOMAIN authTransactions :
    MapHas(clientRegistrations, authTransactions[s].clientId)

\* C34: a code record exists only for a state whose transaction /authorize
\* stored earlier and /auth/callback has removed, whose IdP exchange was
\* started once and has completed; a callback waits for the IdP only after
\* its transaction was stored and removed; and tokens are returned only for a
\* code record that was stored and that the request has removed.
C34_AttemptInOrder ==
  /\ \A c \in DOMAIN authCodes :
       /\ MapHas(codeOrigin, c)
       /\ LET s == codeOrigin[c].state IN
            /\ MapHas(issued, s)
            /\ ~MapHas(authTransactions, s)
            /\ Count(exchanges, s) = 1
            /\ \A r \in pendingCallbacks : r.state # s
            /\ ~Truthy(codeOrigin[c].tokenData.error)
  /\ \A r \in pendingCallbacks :
       /\ MapHas(issued, r.state)
       /\ ~MapHas(authTransactions, r.state)
       /\ Count(exchanges, r.state) = 1
       /\ \A c \in DOMAIN codeOrigin : codeOrigin[c].state # r.state
  /\ (lastResponse.ep = "token" /\ lastResponse.status = 200) =>
       /\ MapHas(codeOrigin, lastResponse.req.code)
       /\ ~MapHas(authCodes, lastResponse.req.code)
       /\ Count(codeReads, lastResponse.req.code) = 1
       /\ lastResponse.body.access_token =
            codeOrigin[lastResponse.req.code].tokenData.access_token

\* Two attempts side by side: tokens were returned for the code of the
\* second while the code of the first is still stored.
C34_Witness ==
  /\ lastResponse.ep = "token" /\ lastResponse.status = 200
  /\ \E c \in DOMAIN authCodes :
       codeOrigin[c].state < codeOrigin[lastResponse.req.code].state

\* The step answers request req.
Answers(req) ==
  /\ lastResponse' # lastResponse
  /\ lastResponse'.ep = "mcp"
  /\ lastResponse'.req = req

\* A POST /mcp reaches its handler: such a step answers the request or
\* creates a transport.
PostHandled(req, keys) ==
  /\ req.method = "POST"
  /\ Answers(req) \/ nextTransport' # nextTransport
  /\ MiddlewareSettled(req, keys).kind = "next"
  /\ McpSessionRequest(req, keys)

\* No two session ids map to the same transport.
OneIdPerTransport ==
  \A a \in DOMAIN sessions, b \in DOMAIN sessions :
    sessions[a].transport = sessions[b].transport => a = b

\* A POST with the id of a session goes to the transport of that session and
\* creates nothing; a POST without one creates a transport that did not exist.
PostForwardsOrCreates ==
  \A req \in SessionRequests, keys \in JwksOutcomes :
    PostHandled(req, keys) =>
      IF HasSession(req)
      THEN /\ lastResponse'.body = [transport |-> sessions[req.sessionId].transport]
           /\ UNCHANGED << sessions, nextTransport, transports, pendingPosts >>
      ELSE /\ nextTransport \notin DOMAIN transports
           /\ transports' = MapSet(transports, nextTransport, NewTransport)
           /\ \E p \in pendingPosts' \ pendingPosts :
                p.req = req /\ p.transport = nextTransport
           /\ UNCHANGED sessions

\* C35 as stated: a POST /mcp with the id of a session is forwarded to the
\* transport of that session and creates no session; a POST /mcp without the
\* id of a session creates a fresh transport, and once the request has been
\* handled that transport is stored under its session id; no two session
\* ids map to the same transport.
C35_EveryNewPostStored ==
  [][ /\ PostForwardsOrCreates
      /\ \A p \in pendingPosts \ pendingPosts' :
           McpPostResumes(p) =>
             \E sid \in DOMAIN sessions' : sessions'[sid].transport = p.transport
      /\ OneIdPerTransport'
    ]_vars

\* C35, amended: as C35, the transport being stored under its session id
\* once the request has been handled if it has taken a session id, which it
\* does for an initialize request; after any other request, and when an
\* await of the handler rejects, nothing is stored.
C35_SessionPerTransport ==
  [][ /\ PostForwardsOrCreates
      /\ \A p \in pendingPosts \ pendingPosts' :
           /\ McpPostResumes(p) =>
                /\ Truthy(transports[p.transport].sessionId)
                     <=> p.req.rpc = "initialize"
                /\ sessions' =
                     IF p.req.rpc = "initialize"
                     THEN MapSet(sessions, transports[p.transport].sessionId,
                                 [transport |-> p.transport])
                     ELSE sessions
           /\ McpPostThrows(p) => sessions' = sessions
      /\ OneIdPerTransport'
    ]_vars

\* Two sessions are stored, each under the id of its own transport, and a
\* POST naming the first was forwarded to the first transport.
C35_Witness ==
  /\ Cardinality(DOMAIN sessions) = 2
  /\ lastResponse.ep = "mcp" /\ lastResponse.req.method = "POST"
  /\ lastResponse.req.sessionId = SessionId(1)
  /\ lastResponse.status = 200
  /\ lastResponse.body = [transport |-> sessions[SessionId(1)].transport]
  /\ pendingPosts = {}

C37_NoClosedTransportStored ==
  \A sid \in DOMAIN sessions : ~transports[sessions[sid].transport].closed

\* The entries of map m whose age at time t is at most ttl.
NotOlderThan(m, t, ttl) ==
  [k \in {x \in DOMAIN m : t - m[x].createdAt <= ttl} |-> m[k]]

NoIdentity(extra) ==
  ~Truthy(extra.oid) /\ ~Truthy(extra.metaOid) /\ ~Truthy(extra.userId)
NoToken(extra) == ~Truthy(extra.token) /\ ~Truthy(extra.metaToken)

\* The 'Authentication required' error result.
IsAuthenticationRequired(result) ==
  /\ result.kind = "tool_result" /\ result.isError
  /\ result.action = "error"
  /\ result.text =
       "Authentication required. Please sign in with your Entra ID account."

\* C39: a todo tool called without a user identity returns the
\* 'Authentication required' error result and leaves the todo store alone;
\* get_user_info called without a token returns the same error and starts no
\* OBO call.
C39_NoIdentityNoStore ==
  [][ /\ \A tool \in TodoTools, extra \in TodoExtras, id \in ToolTodoIds :
           (NoIdentity(extra) /\ TodoToolCall(tool, extra, id)) =>
             /\ IsAuthenticationRequired(toolResult')
             /\ toolResult'.tool = tool
             /\ UNCHANGED todo
      /\ \A extra \in UserInfoExtras :
           (NoToken(extra) /\ GetUserInfo(extra, AllCredentials)) =>
             /\ IsAuthenticationRequired(toolResult')
             /\ UNCHANGED << ccaInstance, ccaCreated, pendingUserInfo >>
    ]_vars

\* The store holds a todo of a user, and delete_todo was then called without
\* an identity: it returned the error and the todo is still there.
C39_Witness ==
  /\ IsAuthenticationRequired(toolResult)
  /\ "tool" \in DOMAIN toolResult /\ toolResult.tool = "delete_todo"
  /\ nextTodo > 1
  /\ \/ Len(GetUserTodos(inMemoryStore, "oidA")) > 0
     \/ Len(cosmosItems) > 0
====
